---------------------------- MODULE Spec2Model ----------------------------
(***************************************************************************)
(* Pathfinding over a weighted grid (CSC412 Prog04, Version 3).            *)
(*                                                                         *)
(*   Graph::findClosestNodes   k-nearest-neighbour adjacency               *)
(*   Graph::findValidPath      depth-first enumeration of node sequences   *)
(*   aStar                     priority-queue search inside a sub-grid     *)
(*   findCheapestPath          fork of one child per sequence, one         *)
(*                             grandchild per leg, scrap files, reduction  *)
(*                                                                         *)
(* Three specifications share the variables:                               *)
(*   SpecEnum   the enumerator, one step per loop iteration or return      *)
(*   SpecAStar  the grid search, one step per pop of the priority queue    *)
(*   Spec       the processes of findCheapestPath                          *)
(***************************************************************************)
EXTENDS Integers, Sequences, FiniteSets, TLC

VARIABLES
    grid,          \* cost grid: [Cells -> Nat]
    nodes,         \* Graph::nodes: [0..n-1 -> position]
    adjList,       \* Graph::adjList: [0..n-1 -> set of node indices]
    reverseIter,   \* iteration order of an unordered_set<int> (unspecified)
    source,        \* start node index
    dest,          \* destination node index
    minNodes,      \* findValidPath's minNodes
    maxNodes,      \* findValidPath's maxNodes
    path,          \* findValidPath's in-progress path
    validPaths,    \* the sequences recorded so far / handed to findCheapestPath
    stack,         \* the recursion of findValidPath: frames [current, todo]
    enumPc,        \* "start" | "run" | "done"
    startPos,      \* aStar's startPos
    endPos,        \* aStar's endPos
    pq,            \* aStar's priority queue: set of <<cost, position>>
    cost,          \* aStar's cost matrix
    predecessors,  \* aStar's predecessors matrix
    totalCost,     \* aStar's totalCost
    route,         \* aStar's path argument (the route it returns)
    aPc,           \* "call" | "loop" | "walk" | "done" | "ub"
    parentPc,      \* findCheapestPath in the parent: "fork" | "wait" | "open" |
                   \*   "read" | "compare" | "returned" | "exited"; "output" once
                   \*   main has called outputLowestCostPath
    pathIndex,     \* the loop index i of findCheapestPath
    parentExit,    \* the exit code of the parent, 0 while it has not exited
    bestPath,      \* findCheapestPath's bestPath: [nodes, path, cost]
    coster,        \* computePathCost's locals: [nodes, path, totalCost, subPathIndex]
    computed,      \* history: the cost of every pathCost computePathCost returned
    child,         \* per sequence: [pc, j, status] of its child process
    gchild,        \* per leg <<i, j>>: [pc, lock, totalCost, path] of its grandchild
    subpathCache,  \* per process: its copy of the global subpathCache
    childFile,     \* scrap files child_<i>.txt: [exists, tokens]
    grandchildFile,\* scrap files grandchild_<i>_<j>.txt: [exists, tokens]
    aStarCalls,    \* history: the legs <<i, j>> whose grandchild called aStar
    forkLog,       \* history: the process created by every fork() that succeeded
    outputFile,    \* the file main hands bestPath to: [exists, nodes, path, cost]
    graphPc,       \* Graph::findClosestNodes: "fill" | "pop" | "done"
    nodeIndex,     \* the loop index i of findClosestNodes
    popCount,      \* the loop index k of findClosestNodes
    minHeap        \* findClosestNodes' minHeap: set of <<distance, node index>>

enumVars == <<path, stack, enumPc>>
inputVars == <<grid, nodes, adjList, reverseIter, source, dest, minNodes, maxNodes>>
graphVars == <<graphPc, nodeIndex, popCount, minHeap>>
astarVars == <<startPos, endPos, pq, cost, predecessors, totalCost, route, aPc>>
runVars == <<parentPc, pathIndex, parentExit, bestPath, coster, computed, child, gchild,
             subpathCache, childFile, grandchildFile, aStarCalls, forkLog, outputFile>>

-----------------------------------------------------------------------------
(* Bounds of the model *)

GridHeight == 3
GridWidth == 3
MaxCost == 2
MaxGraphNodes == 5
NumLayouts == 4
NumGrids == 60
MaxWindow == 5
MaxRunNodes == 4
NumRuns == 24
LargeCost == 600001
HugeCost == 1073741824
NumHugeGrids == 6
NumRoundingGrids == 12
NumV2Runs == 3
MaxForkFailures == 1
NumGraphLayouts == 12

(* Program constants *)

numClosestNodes == 3
DefaultMinNodes == 3
DefaultMaxNodes == 5
FltMax == 2147483647
FloatMantissa == 16777216
StreamPrecision == 1000000

-----------------------------------------------------------------------------
(* Sequences and positions *)

Range(s) == {s[i] : i \in DOMAIN s}

Last(s) == s[Len(s)]

Front(s) == SubSeq(s, 1, Len(s) - 1)

Abs(x) == IF x < 0 THEN -x ELSE x

Min(S) == CHOOSE x \in S : \A y \in S : x <= y

Max(S) == CHOOSE x \in S : \A y \in S : x >= y

Rows == 0 .. (GridHeight - 1)

Cols == 0 .. (GridWidth - 1)

Cells == Rows \X Cols

NumCells == GridHeight * GridWidth

CellOf(k) == <<(k % NumCells) \div GridWidth, (k % NumCells) % GridWidth>>

-----------------------------------------------------------------------------
(* Inputs: a family of node layouts (every node inside the grid, as        *)
(* overlayGraph requires; two nodes may share a cell)                      *)

LayoutOf(seed, n) ==
    [i \in 0 .. (n - 1) |-> CellOf(seed * (2 * i + 1) + i * i + (seed \div 2) * (i + 1))]

-----------------------------------------------------------------------------
(* Graph::findClosestNodes *)

manhattanDistance(a, b) == Abs(a[1] - b[1]) + Abs(a[2] - b[2])

\* std::greater on pair<int,int>: the heap pops the smallest (distance, idx)
HeapBefore(nds, i, j1, j2) ==
    LET d1 == manhattanDistance(nds[i], nds[j1])
        d2 == manhattanDistance(nds[i], nds[j2])
    IN  d1 < d2 \/ (d1 = d2 /\ j1 < j2)

\* the indices popped by the loop k = 0 .. numClosestNodes-1 for node i
ClosestTo(nds, i) ==
    LET others == DOMAIN nds \ {i}
    IN  {j \in others :
            Cardinality({j2 \in others : HeapBefore(nds, i, j2, j)}) < numClosestNodes}

findClosestNodes(nds) ==
    [i \in DOMAIN nds |->
        ClosestTo(nds, i) \cup {j \in DOMAIN nds : i \in ClosestTo(nds, j)}]

-----------------------------------------------------------------------------
(* Graph::findValidPath, one step per loop iteration                       *)

\* mutant: the search starts one element late, std::find(path.begin() + 1, ...)
InPathSkipFirst(p, neighbor) == neighbor \in {p[i] : i \in 2 .. Len(p)}

\* std::find(path.begin(), path.end(), neighbor) != path.end()
InPath(p, neighbor) == neighbor \in Range(p)

\* mutant: the lower limit is exclusive, path.size() > minNodes
LengthValidAbove(len, lo, hi) == len > lo /\ len <= hi

\* mutant: the upper limit is exclusive, path.size() < maxNodes
LengthValidExclusive(len, lo, hi) == len >= lo /\ len < hi

\* path.size() >= minNodes && path.size() <= maxNodes
LengthValid(len, lo, hi) == len >= lo /\ len <= hi

\* the element a range-for over the remaining neighbours reaches next
NextNeighbor(todo, rev) == IF rev THEN Max(todo) ELSE Min(todo)

\* entry of findValidPath(path, validPaths, current, dest, lo, hi):
\* push_back, the base case, and the start of the neighbour loop
FvpEnter(e, adj, current, d, lo, hi) ==
    LET p == Append(e.path, current)
    IN  IF current = d
        THEN [path |-> p,
              validPaths |-> IF LengthValid(Len(p), lo, hi)
                             THEN Append(e.validPaths, p)
                             ELSE e.validPaths,
              stack |-> Append(e.stack, [current |-> current, todo |-> {}])]
        ELSE [path |-> p,
              validPaths |-> e.validPaths,
              stack |-> Append(e.stack, [current |-> current, todo |-> adj[current]])]

\* mutant: the call returns without removing its node
pop_back_skipped(p) == p

\* path.pop_back()
pop_back(p) == Front(p)

\* one iteration of the neighbour loop of the innermost call, or its return
FvpStep(e, adj, d, lo, hi, rev) ==
    LET top == Last(e.stack)
    IN  IF top.todo = {}
        THEN [path |-> pop_back(e.path),
              validPaths |-> e.validPaths,
              stack |-> Front(e.stack)]
        ELSE LET nb == NextNeighbor(top.todo, rev)
                 rest == [e EXCEPT !.stack[Len(e.stack)].todo = top.todo \ {nb}]
             IN  IF InPath(e.path, nb)
                 THEN rest
                 ELSE FvpEnter(rest, adj, nb, d, lo, hi)

EnumState == [path |-> path, validPaths |-> validPaths, stack |-> stack]

SetEnum(e) ==
    /\ path' = e.path
    /\ validPaths' = e.validPaths
    /\ stack' = e.stack

\* the outermost call findValidPath(path, validPaths, start, dest, lo, hi)
EnumCall ==
    /\ enumPc = "start"
    /\ SetEnum(FvpEnter(EnumState, adjList, source, dest, minNodes, maxNodes))
    /\ enumPc' = "run"
    /\ UNCHANGED <<inputVars, graphVars, astarVars, runVars>>

\* a loop iteration whose neighbour is already on the path
EnumSkip ==
    /\ enumPc = "run"
    /\ stack # <<>>
    /\ Last(stack).todo # {}
    /\ InPath(path, NextNeighbor(Last(stack).todo, reverseIter))
    /\ SetEnum(FvpStep(EnumState, adjList, dest, minNodes, maxNodes, reverseIter))
    /\ UNCHANGED <<enumPc, inputVars, graphVars, astarVars, runVars>>

\* a loop iteration that recurses into the neighbour
EnumRecurse ==
    /\ enumPc = "run"
    /\ stack # <<>>
    /\ Last(stack).todo # {}
    /\ ~InPath(path, NextNeighbor(Last(stack).todo, reverseIter))
    /\ SetEnum(FvpStep(EnumState, adjList, dest, minNodes, maxNodes, reverseIter))
    /\ UNCHANGED <<enumPc, inputVars, graphVars, astarVars, runVars>>

\* the end of a call: path.pop_back() and return
EnumReturn ==
    /\ enumPc = "run"
    /\ stack # <<>>
    /\ Last(stack).todo = {}
    /\ SetEnum(FvpStep(EnumState, adjList, dest, minNodes, maxNodes, reverseIter))
    /\ enumPc' = IF Len(stack) = 1 THEN "done" ELSE "run"
    /\ UNCHANGED <<inputVars, graphVars, astarVars, runVars>>

-----------------------------------------------------------------------------
(* Inputs: a family of cost grids with costs in 0 .. MaxCost; seed 0 is    *)
(* the uniform grid of cost 1; the grid of zero costs is added             *)

GridOf(seed) ==
    [c \in Cells |->
        LET k == c[1] * GridWidth + c[2]
        IN  (1 + ((seed * (k * k + 3 * k + 7)) % 11) + ((seed * (k + 2)) \div 5))
                % (MaxCost + 1)]

ZeroGrid == [c \in Cells |-> 0]

Grids == {GridOf(seed) : seed \in 0 .. (NumGrids - 1)} \cup {ZeroGrid}

-----------------------------------------------------------------------------
(* findCheapestSubpath: the sub-grid handed to aStar                       *)

\* mutant: the whole grid is passed to aStar
SubgridOfGrid(sp, ep) ==
    [startRow |-> 0, endRow |-> GridHeight - 1, startCol |-> 0, endCol |-> GridWidth - 1]

\* startRow, endRow, startCol, endCol of findCheapestSubpath
Subgrid(sp, ep) ==
    [startRow |-> Max({Min({sp[1], ep[1]}) - 1, 0}),
     endRow   |-> Min({Max({sp[1], ep[1]}) + 1, GridHeight - 1}),
     startCol |-> Max({Min({sp[2], ep[2]}) - 1, 0}),
     endCol   |-> Min({Max({sp[2], ep[2]}) + 1, GridWidth - 1})]

-----------------------------------------------------------------------------
(* float: costs are whole numbers of cost units; a float holds 24          *)
(* significant bits and is printed with 6 significant digits               *)

\* v rounded to a multiple of scale, ties to the even multiple
RoundTo(v, scale) ==
    LET q == v \div scale
        r == v % scale
        up == 2 * r > scale \/ (2 * r = scale /\ q % 2 = 1)
    IN  (IF up THEN q + 1 ELSE q) * scale

RECURSIVE BinaryScale(_)
BinaryScale(v) == IF v < FloatMantissa THEN 1 ELSE 2 * BinaryScale(v \div 2)

RECURSIVE DecimalScale(_)
DecimalScale(v) == IF v < StreamPrecision THEN 1 ELSE 10 * DecimalScale(v \div 10)

\* the float nearest to v
FloatOf(v) == RoundTo(v, BinaryScale(v))

\* the largest sum that rounds to a finite float
LargestSum == FltMax - BinaryScale(FltMax) \div 2

\* a + b in float: a sum that rounds beyond the largest float is +infinity,
\* which FltMax stands for: against a finite float, and against FltMax, both
\* compare alike
FloatAdd(a, b) == IF b > LargestSum - a THEN FltMax ELSE FloatOf(a + b)

-----------------------------------------------------------------------------
(* aStar, one step per iteration of the pathfinding loop                   *)

\* mutant: no diagonal move
directionsOrthogonal == {<<-1, 0>>, <<0, -1>>, <<0, 1>>, <<1, 0>>}

\* the 8 adjacent cells
directions ==
    {<<-1, -1>>, <<-1, 0>>, <<-1, 1>>, <<0, -1>>, <<0, 1>>, <<1, -1>>, <<1, 0>>, <<1, 1>>}

NoPredecessor == <<-1, -1>>

\* std::greater<Cell> on pair<float, pair<int,int>>
CellBefore(x, y) ==
    \/ x[1] < y[1]
    \/ x[1] = y[1] /\ x[2][1] < y[2][1]
    \/ x[1] = y[1] /\ x[2][1] = y[2][1] /\ x[2][2] <= y[2][2]

\* mutant: a max-heap (std::less), the top is the largest cell
PqTopLargest(q) == CHOOSE x \in q : \A y \in q : CellBefore(y, x)

\* pq.top()
PqTop(q) == CHOOSE x \in q : \A y \in q : CellBefore(x, y)

\* mutant: the bounds of the whole grid instead of those of the sub-grid
InBoundsOfGrid(p, box) == p \in Cells

\* newRow >= startRow && newRow <= endRow && newCol >= startCol && newCol <= endCol
InBounds(p, box) ==
    /\ p[1] >= box.startRow /\ p[1] <= box.endRow
    /\ p[2] >= box.startCol /\ p[2] <= box.endCol

\* the cells (newRow, newCol) of the 8 directions that pass the bounds test:
\* those whose grid cost, cost and predecessor the iteration reads or writes
AdjacentCells(current, box) ==
    {p \in {<<current[1] + d[1], current[2] + d[2]>> : d \in directions} :
        InBounds(p, box)}

\* mutant: every step costs one unit
NewCostPerStep(g, currentCost, p) == FloatAdd(currentCost, 1)

\* float newCost = currentCost + grid[newRow][newCol]
NewCost(g, currentCost, p) == FloatAdd(currentCost, g[p])

\* the state set up before the pathfinding loop
AStarInit(sp) ==
    [pq           |-> {<<0, sp>>},
     cost         |-> [c \in Cells |-> IF c = sp THEN 0 ELSE FltMax],
     predecessors |-> [c \in Cells |-> NoPredecessor],
     totalCost    |-> 0,
     reached      |-> FALSE]

\* one iteration: pop, test for the destination, relax the 8 adjacent cells
AStarIter(a, g, ep, box) ==
    LET top == PqTop(a.pq)
        currentCost == top[1]
        current == top[2]
        rest == a.pq \ {top}
        adjacent == AdjacentCells(current, box)
        better == {p \in adjacent : NewCost(g, currentCost, p) < a.cost[p]}
    IN  IF current = ep
        THEN [a EXCEPT !.pq = rest, !.totalCost = currentCost, !.reached = TRUE]
        ELSE [a EXCEPT
                !.pq = rest \cup {<<NewCost(g, currentCost, p), p>> : p \in better},
                !.cost = [c \in Cells |->
                            IF c \in better THEN NewCost(g, currentCost, c) ELSE @[c]],
                !.predecessors = [c \in Cells |-> IF c \in better THEN current ELSE @[c]]]

\* while (!pq.empty()) with its break
LoopRuns(a) == a.pq # {} /\ ~a.reached

RECURSIVE WalkBack(_, _, _, _)
\* for (current = endPos; current != startPos; current = predecessors[current])
\* the walk leaves the matrix when it reads predecessors[-1][-1]
WalkBack(pred, current, sp, acc) ==
    IF current = sp THEN [ok |-> TRUE, path |-> acc]
    ELSE IF current \notin Cells THEN [ok |-> FALSE, path |-> acc]
    ELSE WalkBack(pred, pred[current], sp, Append(acc, current))

Reverse(s) == [i \in 1 .. Len(s) |-> s[Len(s) + 1 - i]]

\* the reconstruction after the loop: walk, push_back(startPos), reverse
Reconstruct(a, sp, ep) ==
    LET w == WalkBack(a.predecessors, ep, sp, <<>>)
    IN  [ok |-> w.ok, path |-> Reverse(Append(w.path, sp))]

RECURSIVE AStarLoop(_, _, _, _)
AStarLoop(a, g, ep, box) ==
    IF LoopRuns(a) THEN AStarLoop(AStarIter(a, g, ep, box), g, ep, box) ELSE a

\* a whole call of aStar: the cost it returns and the route it leaves in path
aStar(g, sp, ep, box) ==
    LET a == AStarLoop(AStarInit(sp), g, ep, box)
        r == Reconstruct(a, sp, ep)
    IN  [cost |-> a.totalCost, path |-> r.path, ok |-> r.ok]

AStarState ==
    [pq |-> pq, cost |-> cost, predecessors |-> predecessors,
     totalCost |-> totalCost, reached |-> aPc = "walk"]

SetAStar(a) ==
    /\ pq' = a.pq
    /\ cost' = a.cost
    /\ predecessors' = a.predecessors
    /\ totalCost' = a.totalCost

\* the call, with the sub-grid findCheapestSubpath computes
AStarCall ==
    /\ aPc = "call"
    /\ SetAStar(AStarInit(startPos))
    /\ aPc' = "loop"
    /\ UNCHANGED <<startPos, endPos, route, inputVars, graphVars, enumVars, validPaths, runVars>>

\* an iteration that pops a cell other than the destination
AStarRelax ==
    /\ aPc = "loop"
    /\ pq # {}
    /\ PqTop(pq)[2] # endPos
    /\ LET a == AStarIter(AStarState, grid, endPos, Subgrid(startPos, endPos))
       IN  /\ SetAStar(a)
           /\ aPc' = IF a.pq = {} THEN "walk" ELSE "loop"
    /\ UNCHANGED <<startPos, endPos, route, inputVars, graphVars, enumVars, validPaths, runVars>>

\* the iteration that pops the destination and breaks
AStarReach ==
    /\ aPc = "loop"
    /\ pq # {}
    /\ PqTop(pq)[2] = endPos
    /\ SetAStar(AStarIter(AStarState, grid, endPos, Subgrid(startPos, endPos)))
    /\ aPc' = "walk"
    /\ UNCHANGED <<startPos, endPos, route, inputVars, graphVars, enumVars, validPaths, runVars>>

\* the predecessor walk and the return
AStarReturn ==
    /\ aPc = "walk"
    /\ LET r == Reconstruct(AStarState, startPos, endPos)
       IN  /\ route' = r.path
           /\ aPc' = IF r.ok THEN "done" ELSE "ub"
    /\ UNCHANGED <<startPos, endPos, pq, cost, predecessors, totalCost, inputVars, graphVars, enumVars, validPaths, runVars>>

AStarIdle ==
    /\ startPos = <<0, 0>>
    /\ endPos = <<0, 0>>
    /\ pq = {}
    /\ cost = [c \in Cells |-> FltMax]
    /\ predecessors = [c \in Cells |-> NoPredecessor]
    /\ totalCost = 0
    /\ route = <<>>
    /\ aPc = "call"

\* findClosestNodes has returned
GraphIdle ==
    /\ graphPc = "done"
    /\ nodeIndex = 0
    /\ popCount = 0
    /\ minHeap = {}

EnumIdle ==
    /\ path = <<>>
    /\ stack = <<>>
    /\ enumPc = "start"

\* LowestCostPath bestPath = {{}, {}, std::numeric_limits<float>::max()}
NoBestPath == [nodes |-> <<>>, path |-> <<>>, cost |-> FltMax]

\* the output file has not been written
NoOutput == [exists |-> FALSE, nodes |-> <<>>, path |-> <<>>, cost |-> 0]

NoCoster == [nodes |-> <<>>, path |-> <<>>, totalCost |-> 0, subPathIndex |-> 0]

\* findCheapestPath has not been called
RunIdle ==
    /\ parentPc = "fork"
    /\ pathIndex = 0
    /\ parentExit = 0
    /\ bestPath = NoBestPath
    /\ coster = NoCoster
    /\ computed = <<>>
    /\ child = <<>>
    /\ gchild = <<>>
    /\ subpathCache = <<>>
    /\ childFile = <<>>
    /\ grandchildFile = <<>>
    /\ aStarCalls = {}
    /\ forkLog = <<>>
    /\ outputFile = NoOutput

-----------------------------------------------------------------------------
(* Graph::findClosestNodes, one step per heap and per pop                  *)

\* mutant: the heap gives its largest pair first
HeapTopLargest(h) ==
    CHOOSE x \in h : \A y \in h : x[1] > y[1] \/ (x[1] = y[1] /\ x[2] >= y[2])

\* minHeap.top() with std::greater<>: the smallest (distance, node idx) pair
HeapTop(h) ==
    CHOOSE x \in h : \A y \in h : x[1] < y[1] \/ (x[1] = y[1] /\ x[2] <= y[2])

\* mutant: the neighbor is added in one direction only
InsertOneWay(adj, a, neighborIdx) == [adj EXCEPT ![a] = @ \cup {neighborIdx}]

\* adjList[i].insert(neighborIdx); adjList[neighborIdx].insert(i)
InsertBothWays(adj, a, neighborIdx) ==
    [b \in DOMAIN adj |->
        IF b = a THEN adj[b] \cup {neighborIdx}
        ELSE IF b = neighborIdx THEN adj[b] \cup {a}
        ELSE adj[b]]

\* mutant: the loop over k stops one neighbor early
MoreToPopButOne(k, h) == k < numClosestNodes - 1 /\ h # {}

\* the test of the loop over k: k < numClosestNodes && !minHeap.empty()
MoreToPop(k, h) == k < numClosestNodes /\ h # {}

\* the inner loop over j: every other node is pushed with its distance
GraphFill ==
    /\ graphPc = "fill"
    /\ nodeIndex \in DOMAIN nodes
    /\ minHeap' = {<<manhattanDistance(nodes[nodeIndex], nodes[j]), j>> :
                      j \in DOMAIN nodes \ {nodeIndex}}
    /\ popCount' = 0
    /\ graphPc' = "pop"
    /\ UNCHANGED <<grid, nodes, adjList, reverseIter, source, dest, minNodes, maxNodes,
                   nodeIndex, enumVars, validPaths, astarVars, runVars>>

\* one iteration of the loop over k: top, pop, insert in both directions
GraphPop ==
    /\ graphPc = "pop"
    /\ MoreToPop(popCount, minHeap)
    /\ adjList' = InsertBothWays(adjList, nodeIndex, HeapTop(minHeap)[2])
    /\ minHeap' = minHeap \ {HeapTop(minHeap)}
    /\ popCount' = popCount + 1
    /\ UNCHANGED <<grid, nodes, reverseIter, source, dest, minNodes, maxNodes,
                   graphPc, nodeIndex, enumVars, validPaths, astarVars, runVars>>

\* the loop over k is over: the next node, or the return
GraphNext ==
    /\ graphPc = "pop"
    /\ ~MoreToPop(popCount, minHeap)
    /\ nodeIndex' = nodeIndex + 1
    /\ minHeap' = {}
    /\ graphPc' = IF nodeIndex + 1 \in DOMAIN nodes THEN "fill" ELSE "done"
    /\ UNCHANGED <<grid, nodes, adjList, reverseIter, source, dest, minNodes, maxNodes,
                   popCount, enumVars, validPaths, astarVars, runVars>>

\* main after Graph::Graph: the nodes are read, adjList has one empty set per node
InitGraph ==
    /\ grid = ZeroGrid
    /\ \E n \in 2 .. MaxGraphNodes, seed \in 0 .. (NumGraphLayouts - 1) :
          nodes = LayoutOf(seed, n)
    /\ adjList = [a \in DOMAIN nodes |-> {}]
    /\ reverseIter = FALSE
    /\ source = 0
    /\ dest = 1
    /\ minNodes = DefaultMinNodes
    /\ maxNodes = DefaultMaxNodes
    /\ validPaths = <<>>
    /\ EnumIdle
    /\ AStarIdle
    /\ RunIdle
    /\ graphPc = "fill"
    /\ nodeIndex = 0
    /\ popCount = 0
    /\ minHeap = {}

NextGraph == GraphFill \/ GraphPop \/ GraphNext

InitEnum ==
    /\ grid = ZeroGrid
    /\ \E n \in 2 .. MaxGraphNodes, seed \in 0 .. (NumLayouts - 1) :
          /\ nodes = LayoutOf(seed, n)
          /\ adjList = findClosestNodes(nodes)
    /\ reverseIter \in BOOLEAN
    /\ source \in DOMAIN nodes
    /\ dest \in DOMAIN nodes
    /\ minNodes \in 0 .. MaxWindow
    /\ maxNodes \in {DefaultMinNodes, DefaultMaxNodes, MaxWindow}
    /\ path = <<>>
    /\ validPaths = <<>>
    /\ stack = <<>>
    /\ enumPc = "start"
    /\ AStarIdle
    /\ RunIdle
    /\ GraphIdle

NextEnum == EnumCall \/ EnumSkip \/ EnumRecurse \/ EnumReturn

vars == <<grid, nodes, adjList, reverseIter, source, dest, minNodes, maxNodes,
          path, validPaths, stack, enumPc,
          startPos, endPos, pq, cost, predecessors, totalCost, route, aPc,
          parentPc, pathIndex, parentExit, bestPath, coster, computed, child, gchild,
          subpathCache, childFile, grandchildFile, aStarCalls, forkLog, outputFile,
          graphPc, nodeIndex, popCount, minHeap>>

SpecEnum == InitEnum /\ [][NextEnum]_vars

SpecGraph == InitGraph /\ [][NextGraph]_vars

\* aStar on every grid of the family and every pair of cells of the grid
InitAStar ==
    /\ grid \in Grids
    /\ nodes = LayoutOf(0, 2)
    /\ adjList = findClosestNodes(nodes)
    /\ reverseIter = FALSE
    /\ source = 0
    /\ dest = 1
    /\ minNodes = DefaultMinNodes
    /\ maxNodes = DefaultMaxNodes
    /\ validPaths = <<>>
    /\ EnumIdle
    /\ startPos \in Cells
    /\ endPos \in Cells
    /\ pq = {}
    /\ cost = [c \in Cells |-> FltMax]
    /\ predecessors = [c \in Cells |-> NoPredecessor]
    /\ totalCost = 0
    /\ route = <<>>
    /\ aPc = "call"
    /\ RunIdle
    /\ GraphIdle

\* grids whose cells cost 0 or more than half of the largest float: the cost
\* of two such cells is beyond the floats
HugeGrid(seed) == [c \in Cells |-> IF GridOf(seed)[c] = 0 THEN 0 ELSE HugeCost]

HugeGrids == {HugeGrid(seed) : seed \in 0 .. (NumHugeGrids - 1)}

\* aStar called on the grids of HugeGrids
InitOverflow ==
    /\ grid \in HugeGrids
    /\ nodes = LayoutOf(0, 2)
    /\ adjList = findClosestNodes(nodes)
    /\ reverseIter = FALSE
    /\ source = 0
    /\ dest = 1
    /\ minNodes = DefaultMinNodes
    /\ maxNodes = DefaultMaxNodes
    /\ validPaths = <<>>
    /\ EnumIdle
    /\ startPos \in Cells
    /\ endPos \in Cells
    /\ pq = {}
    /\ cost = [c \in Cells |-> FltMax]
    /\ predecessors = [c \in Cells |-> NoPredecessor]
    /\ totalCost = 0
    /\ route = <<>>
    /\ aPc = "call"
    /\ RunIdle
    /\ GraphIdle

\* grids whose cells cost 0, 1 or the first float whose neighbors are 2 apart:
\* a cost of 1 added to such a cell is lost in the float sum
RoundingGrid(seed) ==
    [c \in Cells |->
        IF GridOf(seed)[c] = 0 THEN 0
        ELSE IF GridOf(seed)[c] = 1 THEN 1 ELSE FloatMantissa]

RoundingGrids == {RoundingGrid(seed) : seed \in 0 .. (NumRoundingGrids - 1)}

\* aStar called on the grids of RoundingGrids
InitRounding ==
    /\ grid \in RoundingGrids
    /\ nodes = LayoutOf(0, 2)
    /\ adjList = findClosestNodes(nodes)
    /\ reverseIter = FALSE
    /\ source = 0
    /\ dest = 1
    /\ minNodes = DefaultMinNodes
    /\ maxNodes = DefaultMaxNodes
    /\ validPaths = <<>>
    /\ EnumIdle
    /\ startPos \in Cells
    /\ endPos \in Cells
    /\ pq = {}
    /\ cost = [c \in Cells |-> FltMax]
    /\ predecessors = [c \in Cells |-> NoPredecessor]
    /\ totalCost = 0
    /\ route = <<>>
    /\ aPc = "call"
    /\ RunIdle
    /\ GraphIdle

NextAStar == AStarCall \/ AStarRelax \/ AStarReach \/ AStarReturn

SpecAStar == InitAStar /\ [][NextAStar]_vars

SpecOverflow == InitOverflow /\ [][NextAStar]_vars

SpecRounding == InitRounding /\ [][NextAStar]_vars

-----------------------------------------------------------------------------
(* Graph::findValidPaths: the enumeration run to its return                *)

RECURSIVE FvpRun(_, _, _, _, _, _)
FvpRun(e, adj, d, lo, hi, rev) ==
    IF e.stack = <<>> THEN e.validPaths
    ELSE FvpRun(FvpStep(e, adj, d, lo, hi, rev), adj, d, lo, hi, rev)

\* the outermost call findValidPath(path, validPaths, start, dest, lo, hi)
\* with an empty path and an empty list, run to its return
findValidPath(adj, s, d, lo, hi, rev) ==
    FvpRun(FvpEnter([path |-> <<>>, validPaths |-> <<>>, stack |-> <<>>],
                    adj, s, d, lo, hi),
           adj, d, lo, hi, rev)

\* mutant: the window starts at two nodes
findValidPathsFromTwo(adj, s, d, rev) ==
    findValidPath(adj, s, d, 2, DefaultMaxNodes, rev)

\* no adjacency list, no path; otherwise the window minNodes = 3, maxNodes = 5
findValidPaths(adj, s, d, rev) ==
    IF DOMAIN adj = {} THEN <<>>
    ELSE FvpRun(FvpEnter([path |-> <<>>, validPaths |-> <<>>, stack |-> <<>>],
                         adj, s, d, DefaultMinNodes, DefaultMaxNodes),
                adj, d, DefaultMinNodes, DefaultMaxNodes, rev)

-----------------------------------------------------------------------------
(* Scrap files: what operator<< writes and operator>> reads back           *)

\* grandchildFile << totalCost: a float is written with the stream's default
\* precision of 6 significant digits
FormatFloat(v) == RoundTo(v, DecimalScale(v))

RECURSIVE PositionTokens(_, _)
\* the lines "row col" of the positions k .. Len(r) of a route, as tokens
PositionTokens(r, k) ==
    IF k > Len(r) THEN <<>> ELSE <<r[k][1], r[k][2]>> \o PositionTokens(r, k + 1)

\* mutant: the loop over the route starts at index 0
RouteTokensWithStart(r) == PositionTokens(r, 1)

\* for (size_t i = 1; i < path.size(); ++i): the route without its first position
RouteTokens(r) == PositionTokens(r, 2)

\* while (grandchildFile >> x >> y) path.emplace_back(x, y), after the cost token
ReadPositions(tokens) ==
    [k \in 1 .. ((Len(tokens) - 1) \div 2) |-> <<tokens[2 * k], tokens[2 * k + 1]>>]

\* grandchildFile >> subPathCost: the float nearest to the number written;
\* a failed extraction stores 0
ReadCost(tokens) == IF Len(tokens) >= 1 THEN FloatOf(tokens[1]) ELSE 0

NoFile == [exists |-> FALSE, tokens |-> <<>>]

-----------------------------------------------------------------------------
(* findCheapestPath (Version 3): the parent, one child per sequence, one   *)
(* grandchild per leg                                                      *)

NumPaths == Len(validPaths)

Children == 0 .. (NumPaths - 1)

\* validPaths[i].size() - 1
Legs(c) == Len(validPaths[c + 1]) - 1

Grandchildren == UNION {{<<c, l>> : l \in 0 .. (Legs(c) - 1)} : c \in Children}

\* the processes: <<>> the parent, <<i>> a child, <<i, j>> a grandchild
Processes == {<<>>} \cup {<<c>> : c \in Children} \cup Grandchildren

\* graph.getNodes()[validPaths[i][j]].pos and graph.getNodes()[validPaths[i][j + 1]].pos
CacheKey(p) ==
    <<nodes[validPaths[p[1] + 1][p[2] + 1]], nodes[validPaths[p[1] + 1][p[2] + 2]]>>

\* subpathCache.find(cacheKey)
CacheFind(cache, key) == {e \in cache : e.key = key}

\* mutant: the entry is stored before the route is known, {totalCost, {}}
CacheStoreCostOnly(cache, key, c, r) ==
    {e \in cache : e.key # key} \cup {[key |-> key, cost |-> c, path |-> <<>>]}

\* subpathCache[cacheKey] = {totalCost, path}
CacheStore(cache, key, c, r) ==
    {e \in cache : e.key # key} \cup {[key |-> key, cost |-> c, path |-> r]}

\* mutant: the comparison accepts an equal cost, pathCost.cost <= bestPath.cost
CostLessOrEqual(a, b) == a <= b

\* mutant: the comparison is reversed, pathCost.cost > bestPath.cost
CostGreater(a, b) == a > b

\* pathCost.cost < bestPath.cost
CostLess(a, b) == a < b

\* mutant: the loop variable of the child is not advanced
SameLeg(j) == j

\* j++ in the loop of the child
NextLeg(j) == j + 1

NoChild == [pc |-> "none", j |-> 0, status |-> 0]

NoGrandchild == [pc |-> "none", lock |-> FALSE, totalCost |-> 0, path |-> <<>>]

\* mutant: the processes share one cache, a new process sees every entry
ForkedCacheShared(caches, pr) == UNION {caches[q] : q \in DOMAIN caches}

\* fork(): the new process starts with a copy of the memory of the process pr
\* that forked it, the global subpathCache included
ForkedCache(caches, pr) == caches[pr]

\* fork() in the parent returns the pid of child i
ParentFork ==
    /\ parentPc = "fork"
    /\ pathIndex < NumPaths
    /\ child' = [child EXCEPT ![pathIndex] = [pc |-> "write", j |-> 0, status |-> 0]]
    /\ subpathCache' = [subpathCache EXCEPT
                           ![<<pathIndex>>] = ForkedCache(subpathCache, <<>>)]
    /\ forkLog' = Append(forkLog, <<pathIndex>>)
    /\ parentPc' = "wait"
    /\ UNCHANGED <<pathIndex, parentExit, bestPath, coster, computed, gchild,
                   childFile, grandchildFile, aStarCalls, outputFile>>
    /\ UNCHANGED <<inputVars, graphVars, enumVars, validPaths, astarVars>>

\* fork() in the parent fails: exit(80)
ParentForkFails ==
    /\ parentPc = "fork"
    /\ pathIndex < NumPaths
    /\ parentPc' = "exited"
    /\ parentExit' = 80
    /\ UNCHANGED <<pathIndex, bestPath, coster, computed, child, gchild,
                   subpathCache, childFile, grandchildFile, aStarCalls, forkLog, outputFile>>
    /\ UNCHANGED <<inputVars, graphVars, enumVars, validPaths, astarVars>>

\* while (wait(&status) > 0); inside the loop: returns once the parent has no
\* child left; the status is not looked at
ParentWait ==
    /\ parentPc = "wait"
    /\ \A c \in Children : child[c].pc \in {"none", "exited"}
    /\ parentPc' = "open"
    /\ UNCHANGED <<pathIndex, parentExit, bestPath, coster, computed, child, gchild,
                   subpathCache, childFile, grandchildFile, aStarCalls, forkLog, outputFile>>
    /\ UNCHANGED <<inputVars, graphVars, enumVars, validPaths, astarVars>>

\* computePathCost up to its loop: readChildPath, exit(42) without the file
ParentReadChild ==
    /\ parentPc = "open"
    /\ IF childFile[pathIndex].exists
       THEN /\ coster' = [nodes        |-> childFile[pathIndex].tokens,
                          path         |-> <<nodes[source]>>,
                          totalCost    |-> 0,
                          subPathIndex |-> 0]
            /\ parentPc' = "read"
            /\ UNCHANGED parentExit
       ELSE /\ parentPc' = "exited"
            /\ parentExit' = 42
            /\ UNCHANGED coster
    /\ UNCHANGED <<pathIndex, bestPath, computed, child, gchild,
                   subpathCache, childFile, grandchildFile, aStarCalls, forkLog, outputFile>>
    /\ UNCHANGED <<inputVars, graphVars, enumVars, validPaths, astarVars>>

\* what a reader finds in grandchild_<i>_<j>.txt: every line is flushed as it
\* is written, so while the route is being written any prefix of it is there
Visible(p) ==
    IF gchild[p].pc = "route"
    THEN {grandchildFile[p].tokens \o RouteTokens(SubSeq(gchild[p].path, 1, k)) :
            k \in 1 .. Len(gchild[p].path)}
    ELSE {grandchildFile[p].tokens}

\* one iteration of computePathCost's loop: readGrandchildSubpath, exit(43)
\* without the file
ParentReadGrandchild ==
    /\ parentPc = "read"
    /\ coster.subPathIndex < Len(coster.nodes) - 1
    /\ LET p == <<pathIndex, coster.subPathIndex>>
       IN  IF grandchildFile[p].exists
           THEN /\ \E tokens \in Visible(p) :
                      coster' = [coster EXCEPT
                                    !.path = @ \o ReadPositions(tokens),
                                    !.totalCost = FloatAdd(@, ReadCost(tokens)),
                                    !.subPathIndex = @ + 1]
                /\ UNCHANGED <<parentPc, parentExit>>
           ELSE /\ parentPc' = "exited"
                /\ parentExit' = 43
                /\ UNCHANGED coster
    /\ UNCHANGED <<pathIndex, bestPath, computed, child, gchild,
                   subpathCache, childFile, grandchildFile, aStarCalls, forkLog, outputFile>>
    /\ UNCHANGED <<inputVars, graphVars, enumVars, validPaths, astarVars>>

\* computePathCost returns {nodes, path, totalCost}; the comparison with
\* bestPath and the end of the iteration
ParentCompare ==
    /\ parentPc = "read"
    /\ coster.subPathIndex >= Len(coster.nodes) - 1
    /\ LET pathCost == [nodes |-> coster.nodes, path |-> coster.path,
                        cost |-> coster.totalCost]
       IN  /\ bestPath' = IF CostLess(pathCost.cost, bestPath.cost)
                          THEN pathCost ELSE bestPath
           /\ computed' = Append(computed, pathCost.cost)
    /\ pathIndex' = pathIndex + 1
    /\ parentPc' = "fork"
    /\ UNCHANGED <<parentExit, coster, child, gchild,
                   subpathCache, childFile, grandchildFile, aStarCalls, forkLog, outputFile>>
    /\ UNCHANGED <<inputVars, graphVars, enumVars, validPaths, astarVars>>

\* the loop is over: return bestPath
ParentReturn ==
    /\ parentPc = "fork"
    /\ pathIndex = NumPaths
    /\ parentPc' = "returned"
    /\ UNCHANGED <<pathIndex, parentExit, bestPath, coster, computed, child, gchild,
                   subpathCache, childFile, grandchildFile, aStarCalls, forkLog, outputFile>>
    /\ UNCHANGED <<inputVars, graphVars, enumVars, validPaths, astarVars>>

\* main: outputLowestCostPath(bestPath, outputFilePath) follows the call of
\* findCheapestPath without a test of validPaths or of bestPath
outputLowestCostPath ==
    /\ parentPc = "returned"
    /\ outputFile' = [exists |-> TRUE, nodes |-> bestPath.nodes, path |-> bestPath.path,
                      cost |-> FormatFloat(bestPath.cost)]
    /\ parentPc' = "output"
    /\ UNCHANGED <<pathIndex, parentExit, bestPath, coster, computed, child, gchild,
                   subpathCache, childFile, grandchildFile, aStarCalls, forkLog>>
    /\ UNCHANGED <<inputVars, graphVars, enumVars, validPaths, astarVars>>

\* child i writes its sequence to child_<i>.txt and closes the file
ChildWrite ==
    \E c \in Children :
        /\ child[c].pc = "write"
        /\ childFile' = [childFile EXCEPT ![c] = [exists |-> TRUE, tokens |-> validPaths[c + 1]]]
        /\ child' = [child EXCEPT ![c].pc = "fork"]
        /\ UNCHANGED <<parentPc, pathIndex, parentExit, bestPath, coster, computed, gchild,
                       subpathCache, grandchildFile, aStarCalls, forkLog, outputFile>>
        /\ UNCHANGED <<inputVars, graphVars, enumVars, validPaths, astarVars>>

\* fork() in child i returns the pid of grandchild j
ChildFork ==
    \E c \in Children :
        /\ child[c].pc = "fork"
        /\ child[c].j < Legs(c)
        /\ gchild' = [gchild EXCEPT ![<<c, child[c].j>>] =
                         [pc |-> "start", lock |-> FALSE, totalCost |-> 0, path |-> <<>>]]
        /\ subpathCache' = [subpathCache EXCEPT
                               ![<<c, child[c].j>>] = ForkedCache(subpathCache, <<c>>)]
        /\ forkLog' = Append(forkLog, <<c, child[c].j>>)
        /\ child' = [child EXCEPT ![c].j = NextLeg(@)]
        /\ UNCHANGED <<parentPc, pathIndex, parentExit, bestPath, coster, computed,
                       childFile, grandchildFile, aStarCalls, outputFile>>
        /\ UNCHANGED <<inputVars, graphVars, enumVars, validPaths, astarVars>>

\* fork() in child i fails: exit(80), without a wait for the grandchildren
\* forked so far
ChildForkFails ==
    \E c \in Children :
        /\ child[c].pc = "fork"
        /\ child[c].j < Legs(c)
        /\ child' = [child EXCEPT ![c].pc = "exited", ![c].status = 80]
        /\ UNCHANGED <<parentPc, pathIndex, parentExit, bestPath, coster, computed, gchild,
                       subpathCache, childFile, grandchildFile, aStarCalls, forkLog, outputFile>>
        /\ UNCHANGED <<inputVars, graphVars, enumVars, validPaths, astarVars>>

\* while (wait(&status) > 0); exit(0) in child i
ChildExit ==
    \E c \in Children :
        /\ child[c].pc = "fork"
        /\ child[c].j = Legs(c)
        /\ \A l \in 0 .. (Legs(c) - 1) : gchild[<<c, l>>].pc \in {"exited", "killed"}
        /\ child' = [child EXCEPT ![c].pc = "exited"]
        /\ UNCHANGED <<parentPc, pathIndex, parentExit, bestPath, coster, computed, gchild,
                       subpathCache, childFile, grandchildFile, aStarCalls, forkLog, outputFile>>
        /\ UNCHANGED <<inputVars, graphVars, enumVars, validPaths, astarVars>>

\* std::unique_lock<std::mutex> lock(cacheMutex) and lock.lock(): the mutex
\* is a local of the call, held by this execution from here on
Lock(g) == [g EXCEPT !.lock = TRUE]

\* mutant: the lock is kept over the call of aStar
UnlockSkipped(g) == g

\* lock.unlock()
Unlock(g) == [g EXCEPT !.lock = FALSE]

\* findCheapestSubpath up to the branch: the file is created, the local
\* mutex locked, the cache of this process searched; a hit writes the cached
\* cost, a miss unlocks
GrandchildOpen ==
    \E p \in Grandchildren :
        /\ gchild[p].pc = "start"
        /\ LET hit == CacheFind(subpathCache[p], CacheKey(p))
           IN  IF hit = {}
               THEN /\ gchild' = [gchild EXCEPT ![p] = Unlock([Lock(@) EXCEPT !.pc = "astar"])]
                    /\ grandchildFile' = [grandchildFile EXCEPT
                                             ![p] = [exists |-> TRUE, tokens |-> <<>>]]
               ELSE LET e == CHOOSE e \in hit : TRUE
                    IN  /\ gchild' = [gchild EXCEPT
                                         ![p] = [Lock(@) EXCEPT !.pc = "route",
                                                                !.totalCost = e.cost,
                                                                !.path = e.path]]
                        /\ grandchildFile' = [grandchildFile EXCEPT
                               ![p] = [exists |-> TRUE, tokens |-> <<FormatFloat(e.cost)>>]]
        /\ UNCHANGED <<parentPc, pathIndex, parentExit, bestPath, coster, computed, child,
                       subpathCache, childFile, aStarCalls, forkLog, outputFile>>
        /\ UNCHANGED <<inputVars, graphVars, enumVars, validPaths, astarVars>>

\* the miss branch: aStar on the sub-grid, lock, store in the cache of this
\* process, write the cost line. When the predecessor walk of aStar leaves the
\* matrix the behaviour is undefined: the process is killed by the read (the
\* file stays as it was opened, empty), or the walk stops and aStar returns
GrandchildSolve ==
    \E p \in Grandchildren :
        /\ gchild[p].pc = "astar"
        /\ LET key == CacheKey(p)
               r == aStar(grid, key[1], key[2], Subgrid(key[1], key[2]))
           IN  \E outcome \in (IF r.ok THEN {"returns"} ELSE {"killed", "returns"}) :
                  IF outcome = "returns"
                  THEN /\ gchild' = [gchild EXCEPT
                                         ![p] = [Lock(@) EXCEPT !.pc = "route",
                                                                !.totalCost = r.cost,
                                                                !.path = r.path]]
                       /\ subpathCache' = [subpathCache EXCEPT
                                              ![p] = CacheStore(@, key, r.cost, r.path)]
                       /\ grandchildFile' = [grandchildFile EXCEPT
                                                ![p].tokens = @ \o <<FormatFloat(r.cost)>>]
                  ELSE /\ gchild' = [gchild EXCEPT ![p].pc = "killed"]
                       /\ UNCHANGED <<subpathCache, grandchildFile>>
        /\ aStarCalls' = aStarCalls \cup {p}
        /\ UNCHANGED <<parentPc, pathIndex, parentExit, bestPath, coster, computed, child,
                       childFile, forkLog, outputFile>>
        /\ UNCHANGED <<inputVars, graphVars, enumVars, validPaths, astarVars>>

\* mutant: the grandchild marks the cells of its route in the grid
GrandchildFinishMarksGrid ==
    \E p \in Grandchildren :
        /\ gchild[p].pc = "route"
        /\ grandchildFile' = [grandchildFile EXCEPT
                                 ![p].tokens = @ \o RouteTokens(gchild[p].path)]
        /\ gchild' = [gchild EXCEPT ![p].pc = "exited", ![p].lock = FALSE]
        /\ grid' = [c \in Cells |->
                       IF \E k \in 1 .. Len(gchild[p].path) : gchild[p].path[k] = c
                       THEN 0 ELSE grid[c]]
        /\ UNCHANGED <<parentPc, pathIndex, parentExit, bestPath, coster, computed, child,
                       subpathCache, childFile, aStarCalls, forkLog, outputFile>>
        /\ UNCHANGED <<nodes, adjList, reverseIter, source, dest, minNodes, maxNodes,
                       graphVars, enumVars, validPaths, astarVars>>

\* the route lines from index 1 on, the return (the lock is released) and exit(0)
GrandchildFinish ==
    \E p \in Grandchildren :
        /\ gchild[p].pc = "route"
        /\ grandchildFile' = [grandchildFile EXCEPT
                                 ![p].tokens = @ \o RouteTokens(gchild[p].path)]
        /\ gchild' = [gchild EXCEPT ![p].pc = "exited", ![p].lock = FALSE]
        /\ UNCHANGED <<parentPc, pathIndex, parentExit, bestPath, coster, computed, child,
                       subpathCache, childFile, aStarCalls, forkLog, outputFile>>
        /\ UNCHANGED <<inputVars, graphVars, enumVars, validPaths, astarVars>>

-----------------------------------------------------------------------------
(* Inputs of a run: a family of NumRuns command lines. Run r has           *)
(* 2 + r % (MaxRunNodes - 1) nodes; its layout, grid, iteration order,     *)
(* start and end node change with every cycle k of node counts. Every      *)
(* third cycle has a grid of large costs; cycle 0 has the uniform grid.    *)

LargeGrid(seed) == [c \in Cells |-> LargeCost * GridOf(seed)[c]]

RunOf(r) ==
    LET n == 2 + (r % (MaxRunNodes - 1))
        k == r \div (MaxRunNodes - 1)
        s == k % n
    IN  [grid        |-> IF k % 3 = 2 THEN LargeGrid(k) ELSE GridOf(k),
         nodes       |-> LayoutOf(k, n),
         reverseIter |-> k % 2 = 1,
         source      |-> s,
         dest        |-> (s + 1 + (k \div 3)) % n]

\* main: the graph, its adjacency list and its valid paths are built, the
\* scrap folder is empty, findCheapestPath is entered
Init ==
    /\ \E r \in 0 .. (NumRuns - 1) :
          /\ grid = RunOf(r).grid
          /\ nodes = RunOf(r).nodes
          /\ reverseIter = RunOf(r).reverseIter
          /\ source = RunOf(r).source
          /\ dest = RunOf(r).dest
    /\ adjList = findClosestNodes(nodes)
    /\ minNodes = DefaultMinNodes
    /\ maxNodes = DefaultMaxNodes
    /\ validPaths = findValidPaths(adjList, source, dest, reverseIter)
    /\ path = <<>>
    /\ stack = <<>>
    /\ enumPc = "done"
    /\ AStarIdle
    /\ parentPc = "fork"
    /\ pathIndex = 0
    /\ parentExit = 0
    /\ bestPath = NoBestPath
    /\ coster = NoCoster
    /\ computed = <<>>
    /\ child = [c \in Children |-> NoChild]
    /\ gchild = [p \in Grandchildren |-> NoGrandchild]
    /\ subpathCache = [p \in Processes |-> {}]
    /\ childFile = [c \in Children |-> NoFile]
    /\ grandchildFile = [p \in Grandchildren |-> NoFile]
    /\ aStarCalls = {}
    /\ forkLog = <<>>
    /\ outputFile = NoOutput
    /\ GraphIdle

\* findCheapestPath entered with the sequences findValidPath gives for a
\* window that starts at minNodes = 0, 1 or 3, for the runs of two and of
\* three nodes, with the end node of the run or its start node as dest
InitWindow ==
    /\ \E r \in 0 .. (NumRuns - 1) :
          /\ r % (MaxRunNodes - 1) < 2
          /\ grid = RunOf(r).grid
          /\ nodes = RunOf(r).nodes
          /\ reverseIter = RunOf(r).reverseIter
          /\ source = RunOf(r).source
          /\ dest \in {RunOf(r).source, RunOf(r).dest}
    /\ adjList = findClosestNodes(nodes)
    /\ minNodes \in {0, 1, DefaultMinNodes}
    /\ maxNodes = DefaultMaxNodes
    /\ validPaths = findValidPath(adjList, source, dest, minNodes, maxNodes, reverseIter)
    /\ path = <<>>
    /\ stack = <<>>
    /\ enumPc = "done"
    /\ AStarIdle
    /\ parentPc = "fork"
    /\ pathIndex = 0
    /\ parentExit = 0
    /\ bestPath = NoBestPath
    /\ coster = NoCoster
    /\ computed = <<>>
    /\ child = [c \in Children |-> NoChild]
    /\ gchild = [p \in Grandchildren |-> NoGrandchild]
    /\ subpathCache = [p \in Processes |-> {}]
    /\ childFile = [c \in Children |-> NoFile]
    /\ grandchildFile = [p \in Grandchildren |-> NoFile]
    /\ aStarCalls = {}
    /\ forkLog = <<>>
    /\ outputFile = NoOutput
    /\ GraphIdle

\* main on the grids of HugeGrids
InitCrash ==
    /\ \E r \in 0 .. (NumRuns - 1) :
          /\ grid = HugeGrid(r \div (MaxRunNodes - 1))
          /\ nodes = RunOf(r).nodes
          /\ reverseIter = RunOf(r).reverseIter
          /\ source = RunOf(r).source
          /\ dest = RunOf(r).dest
    /\ adjList = findClosestNodes(nodes)
    /\ minNodes = DefaultMinNodes
    /\ maxNodes = DefaultMaxNodes
    /\ validPaths = findValidPaths(adjList, source, dest, reverseIter)
    /\ path = <<>>
    /\ stack = <<>>
    /\ enumPc = "done"
    /\ AStarIdle
    /\ parentPc = "fork"
    /\ pathIndex = 0
    /\ parentExit = 0
    /\ bestPath = NoBestPath
    /\ coster = NoCoster
    /\ computed = <<>>
    /\ child = [c \in Children |-> NoChild]
    /\ gchild = [p \in Grandchildren |-> NoGrandchild]
    /\ subpathCache = [p \in Processes |-> {}]
    /\ childFile = [c \in Children |-> NoFile]
    /\ grandchildFile = [p \in Grandchildren |-> NoFile]
    /\ aStarCalls = {}
    /\ forkLog = <<>>
    /\ outputFile = NoOutput
    /\ GraphIdle

\* the scrap folder after an earlier run of the same command line on another
\* grid file: main creates the folder only when it is absent and no run
\* removes its files
StaleGrid == GridOf(1)

StaleChildFile(c) == [exists |-> TRUE, tokens |-> validPaths[c + 1]]

StaleGrandchildFile(p) ==
    LET key == CacheKey(p)
        r == aStar(StaleGrid, key[1], key[2], Subgrid(key[1], key[2]))
    IN  [exists |-> TRUE, tokens |-> <<FormatFloat(r.cost)>> \o RouteTokens(r.path)]

\* the runs of two and of three nodes
StaleRuns == {r \in 0 .. (NumRuns - 1) : r % (MaxRunNodes - 1) < 2}

\* main entered with the scrap folder an earlier run left
InitStale ==
    /\ \E r \in StaleRuns :
          /\ grid = RunOf(r).grid
          /\ nodes = RunOf(r).nodes
          /\ reverseIter = RunOf(r).reverseIter
          /\ source = RunOf(r).source
          /\ dest = RunOf(r).dest
    /\ adjList = findClosestNodes(nodes)
    /\ minNodes = DefaultMinNodes
    /\ maxNodes = DefaultMaxNodes
    /\ validPaths = findValidPaths(adjList, source, dest, reverseIter)
    /\ path = <<>>
    /\ stack = <<>>
    /\ enumPc = "done"
    /\ AStarIdle
    /\ parentPc = "fork"
    /\ pathIndex = 0
    /\ parentExit = 0
    /\ bestPath = NoBestPath
    /\ coster = NoCoster
    /\ computed = <<>>
    /\ child = [c \in Children |-> NoChild]
    /\ gchild = [p \in Grandchildren |-> NoGrandchild]
    /\ subpathCache = [p \in Processes |-> {}]
    /\ childFile = [c \in Children |-> StaleChildFile(c)]
    /\ grandchildFile = [p \in Grandchildren |-> StaleGrandchildFile(p)]
    /\ aStarCalls = {}
    /\ forkLog = <<>>
    /\ outputFile = NoOutput
    /\ GraphIdle

Next ==
    \/ ParentFork
    \/ ParentForkFails
    \/ ParentWait
    \/ ParentReadChild
    \/ ParentReadGrandchild
    \/ ParentCompare
    \/ ParentReturn
    \/ outputLowestCostPath
    \/ ChildWrite
    \/ ChildFork
    \/ ChildForkFails
    \/ ChildExit
    \/ GrandchildOpen
    \/ GrandchildSolve
    \/ GrandchildFinish

Spec == Init /\ [][Next]_vars

-----------------------------------------------------------------------------
(* Version 2: findCheapestPath forks a child per candidate and waits after *)
(* its loop; findCheapestSubpath forks a grandchild per leg; the files     *)
(* hold node indices only. fork() is tested for 0 only: a failed fork is   *)
(* skipped                                                                 *)

\* the runs Version 2 is entered with: the first NumV2Runs runs with at
\* most numClosestNodes + 1 nodes, whose every two nodes are adjacent
V2Runs ==
    {r \in 0 .. (NumV2Runs - 1) :
        Cardinality(DOMAIN RunOf(r).nodes) <= numClosestNodes + 1}

\* Version 2's main: the graph is built, the scrap folder is empty,
\* findCheapestPath is entered and has called findValidPaths
InitV2 ==
    /\ \E r \in V2Runs :
          /\ grid = RunOf(r).grid
          /\ nodes = RunOf(r).nodes
          /\ reverseIter = RunOf(r).reverseIter
          /\ source = RunOf(r).source
          /\ dest = RunOf(r).dest
    /\ adjList = findClosestNodes(nodes)
    /\ minNodes = DefaultMinNodes
    /\ maxNodes = DefaultMaxNodes
    /\ validPaths = findValidPaths(adjList, source, dest, reverseIter)
    /\ path = <<>>
    /\ stack = <<>>
    /\ enumPc = "done"
    /\ AStarIdle
    /\ parentPc = "v2fork"
    /\ pathIndex = 0
    /\ parentExit = 0
    /\ bestPath = NoBestPath
    /\ coster = NoCoster
    /\ computed = <<>>
    /\ child = [c \in Children |-> NoChild]
    /\ gchild = [p \in Grandchildren |-> NoGrandchild]
    /\ subpathCache = [p \in Processes |-> {}]
    /\ childFile = [c \in Children |-> NoFile]
    /\ grandchildFile = [p \in Grandchildren |-> NoFile]
    /\ aStarCalls = {}
    /\ forkLog = <<>>
    /\ outputFile = NoOutput
    /\ GraphIdle

\* the forks that have failed so far: the candidates the loop of the parent
\* has passed without a child, the legs the loop of a child has passed
\* without a grandchild
V2FailedForks ==
    {<<c>> : c \in {d \in Children : d < pathIndex /\ child[d].pc = "none"}}
        \cup {p \in Grandchildren : p[2] < child[p[1]].j /\ gchild[p].pc = "none"}

\* fork() may fail as long as fewer than MaxForkFailures forks have failed
V2ForkMayFail == Cardinality(V2FailedForks) < MaxForkFailures

\* the position of the parent after the fork of candidate i: the next
\* candidate, or the wait loop after the last one
V2AfterFork(i) == IF i + 1 < NumPaths THEN "v2fork" ELSE "v2wait"

\* if (validPaths.size() == 0) return
V2ParentReturnEmpty ==
    /\ parentPc = "v2fork"
    /\ NumPaths = 0
    /\ parentPc' = "v2returned"
    /\ UNCHANGED <<pathIndex, parentExit, bestPath, coster, computed, child, gchild,
                   subpathCache, childFile, grandchildFile, aStarCalls, forkLog, outputFile>>
    /\ UNCHANGED <<inputVars, graphVars, enumVars, validPaths, astarVars>>

\* fork() in the parent returns the pid of child i; the loop goes on
V2ParentFork ==
    /\ parentPc = "v2fork"
    /\ pathIndex < NumPaths
    /\ child' = [child EXCEPT ![pathIndex] = [pc |-> "v2write", j |-> 0, status |-> 0]]
    /\ pathIndex' = pathIndex + 1
    /\ parentPc' = V2AfterFork(pathIndex)
    /\ UNCHANGED <<parentExit, bestPath, coster, computed, gchild,
                   subpathCache, childFile, grandchildFile, aStarCalls, forkLog, outputFile>>
    /\ UNCHANGED <<inputVars, graphVars, enumVars, validPaths, astarVars>>

\* fork() in the parent returns -1: `if (pid == 0)` is false, the loop goes on
V2ParentForkFails ==
    /\ parentPc = "v2fork"
    /\ pathIndex < NumPaths
    /\ V2ForkMayFail
    /\ pathIndex' = pathIndex + 1
    /\ parentPc' = V2AfterFork(pathIndex)
    /\ UNCHANGED <<parentExit, bestPath, coster, computed, child, gchild,
                   subpathCache, childFile, grandchildFile, aStarCalls, forkLog, outputFile>>
    /\ UNCHANGED <<inputVars, graphVars, enumVars, validPaths, astarVars>>

\* while (wait(&status) > 0); after the loop: returns once the parent has no
\* child left
V2ParentWait ==
    /\ parentPc = "v2wait"
    /\ \A c \in Children : child[c].pc \in {"none", "exited"}
    /\ parentPc' = "v2returned"
    /\ UNCHANGED <<pathIndex, parentExit, bestPath, coster, computed, child, gchild,
                   subpathCache, childFile, grandchildFile, aStarCalls, forkLog, outputFile>>
    /\ UNCHANGED <<inputVars, graphVars, enumVars, validPaths, astarVars>>

\* child i writes `node << " "` for every node of its sequence to
\* child_<i>.txt and closes the file
V2ChildWrite ==
    \E c \in Children :
        /\ child[c].pc = "v2write"
        /\ childFile' = [childFile EXCEPT ![c] = [exists |-> TRUE, tokens |-> validPaths[c + 1]]]
        /\ child' = [child EXCEPT ![c].pc = "v2fork"]
        /\ UNCHANGED <<parentPc, pathIndex, parentExit, bestPath, coster, computed, gchild,
                       subpathCache, grandchildFile, aStarCalls, forkLog, outputFile>>
        /\ UNCHANGED <<inputVars, graphVars, enumVars, validPaths, astarVars>>

\* fork() in findCheapestSubpath of child i returns the pid of grandchild j
V2ChildFork ==
    \E c \in Children :
        /\ child[c].pc = "v2fork"
        /\ child[c].j < Legs(c)
        /\ gchild' = [gchild EXCEPT ![<<c, child[c].j>>] =
                         [pc |-> "v2write", lock |-> FALSE, totalCost |-> 0, path |-> <<>>]]
        /\ child' = [child EXCEPT ![c].j = @ + 1]
        /\ UNCHANGED <<parentPc, pathIndex, parentExit, bestPath, coster, computed,
                       subpathCache, childFile, grandchildFile, aStarCalls, forkLog, outputFile>>
        /\ UNCHANGED <<inputVars, graphVars, enumVars, validPaths, astarVars>>

\* fork() in child i returns -1: `if (grandchildPid == 0)` is false, j++
V2ChildForkFails ==
    \E c \in Children :
        /\ child[c].pc = "v2fork"
        /\ child[c].j < Legs(c)
        /\ V2ForkMayFail
        /\ child' = [child EXCEPT ![c].j = @ + 1]
        /\ UNCHANGED <<parentPc, pathIndex, parentExit, bestPath, coster, computed, gchild,
                       subpathCache, childFile, grandchildFile, aStarCalls, forkLog, outputFile>>
        /\ UNCHANGED <<inputVars, graphVars, enumVars, validPaths, astarVars>>

\* while (wait(&status) > 0); at the end of findCheapestSubpath, then exit(0)
V2ChildExit ==
    \E c \in Children :
        /\ child[c].pc = "v2fork"
        /\ child[c].j = Legs(c)
        /\ \A l \in 0 .. (Legs(c) - 1) : gchild[<<c, l>>].pc \in {"none", "exited"}
        /\ child' = [child EXCEPT ![c].pc = "exited"]
        /\ UNCHANGED <<parentPc, pathIndex, parentExit, bestPath, coster, computed, gchild,
                       subpathCache, childFile, grandchildFile, aStarCalls, forkLog, outputFile>>
        /\ UNCHANGED <<inputVars, graphVars, enumVars, validPaths, astarVars>>

\* mutant: the file name leaves out the leg, "/grandchild_" + pathIndex + "_0.txt"
V2GrandchildFilePathOfChild(p) == <<p[1], 0>>

\* scrapFolderPath + "/grandchild_" + pathIndex + "_" + j + ".txt"
V2GrandchildFilePath(p) == p

\* grandchild j of child i writes validPath[j] << " " << validPath[j + 1] to
\* grandchild_<i>_<j>.txt, closes the file and exits
V2GrandchildWrite ==
    \E p \in Grandchildren :
        /\ gchild[p].pc = "v2write"
        /\ grandchildFile' = [grandchildFile EXCEPT ![V2GrandchildFilePath(p)] =
              [exists |-> TRUE,
               tokens |-> <<validPaths[p[1] + 1][p[2] + 1], validPaths[p[1] + 1][p[2] + 2]>>]]
        /\ gchild' = [gchild EXCEPT ![p].pc = "exited"]
        /\ UNCHANGED <<parentPc, pathIndex, parentExit, bestPath, coster, computed, child,
                       subpathCache, childFile, aStarCalls, forkLog, outputFile>>
        /\ UNCHANGED <<inputVars, graphVars, enumVars, validPaths, astarVars>>

NextV2 ==
    \/ V2ParentReturnEmpty
    \/ V2ParentFork
    \/ V2ParentForkFails
    \/ V2ParentWait
    \/ V2ChildWrite
    \/ V2ChildFork
    \/ V2ChildForkFails
    \/ V2ChildExit
    \/ V2GrandchildWrite

SpecV2 == InitV2 /\ [][NextV2]_vars

\* Version 3's main on the runs of V2Runs, the scrap folder empty
InitV3 ==
    /\ \E r \in V2Runs :
          /\ grid = RunOf(r).grid
          /\ nodes = RunOf(r).nodes
          /\ reverseIter = RunOf(r).reverseIter
          /\ source = RunOf(r).source
          /\ dest = RunOf(r).dest
    /\ adjList = findClosestNodes(nodes)
    /\ minNodes = DefaultMinNodes
    /\ maxNodes = DefaultMaxNodes
    /\ validPaths = findValidPaths(adjList, source, dest, reverseIter)
    /\ path = <<>>
    /\ stack = <<>>
    /\ enumPc = "done"
    /\ AStarIdle
    /\ parentPc = "fork"
    /\ pathIndex = 0
    /\ parentExit = 0
    /\ bestPath = NoBestPath
    /\ coster = NoCoster
    /\ computed = <<>>
    /\ child = [c \in Children |-> NoChild]
    /\ gchild = [p \in Grandchildren |-> NoGrandchild]
    /\ subpathCache = [p \in Processes |-> {}]
    /\ childFile = [c \in Children |-> NoFile]
    /\ grandchildFile = [p \in Grandchildren |-> NoFile]
    /\ aStarCalls = {}
    /\ forkLog = <<>>
    /\ outputFile = NoOutput
    /\ GraphIdle

\* the two versions on the same runs
InitScrap == InitV3 \/ InitV2

NextScrap == Next \/ NextV2

SpecScrap == InitScrap /\ [][NextScrap]_vars

\* the steps of the parent, of the children and of the grandchildren
ParentStep ==
    \/ ParentFork
    \/ ParentForkFails
    \/ ParentWait
    \/ ParentReadChild
    \/ ParentReadGrandchild
    \/ ParentCompare
    \/ ParentReturn
    \/ outputLowestCostPath

ChildStep == ChildWrite \/ ChildFork \/ ChildForkFails \/ ChildExit

GrandchildStep == GrandchildOpen \/ GrandchildSolve \/ GrandchildFinish

\* the scheduler of the operating system: a process that can run is run in
\* the end, in each of the three generations of processes
FairSpec ==
    /\ Spec
    /\ WF_vars(ParentStep)
    /\ WF_vars(ChildStep)
    /\ WF_vars(GrandchildStep)

SpecWindow == InitWindow /\ [][Next]_vars

SpecCrash == InitCrash /\ [][Next]_vars

SpecStale == InitStale /\ [][Next]_vars

-----------------------------------------------------------------------------
(* Reference definitions for the properties of the enumerator              *)

RECURSIVE SimplePathsOfLength(_, _, _)
\* the duplicate-free node sequences of len nodes that start at s and follow edges
SimplePathsOfLength(adj, s, len) ==
    IF len = 1 THEN {<<s>>}
    ELSE UNION {{Append(p, v) : v \in adj[p[Len(p)]] \ {p[i] : i \in DOMAIN p}} :
                    p \in SimplePathsOfLength(adj, s, len - 1)}

SimplePathsTo(adj, s, d) ==
    {p \in UNION {SimplePathsOfLength(adj, s, len) : len \in 1 .. Cardinality(DOMAIN adj)} :
        p[Len(p)] = d}

IsCandidate(p) ==
    /\ Len(p) >= 1
    /\ p[1] = source
    /\ p[Len(p)] = dest
    /\ Len(p) >= minNodes
    /\ Len(p) <= maxNodes
    /\ \A i, j \in DOMAIN p : i # j => p[i] # p[j]
    /\ \A i \in 1 .. (Len(p) - 1) : p[i + 1] \in adjList[p[i]]

\* C1: every sequence appended to validPaths starts at source, ends at dest,
\* has between minNodes and maxNodes nodes, repeats no node and follows an
\* adjacency edge between every two consecutive nodes.
C1_EmittedSequencesValid ==
    \A k \in DOMAIN validPaths : IsCandidate(validPaths[k])

\* a sequence of at least three nodes has been recorded while shorter and
\* longer simple paths to dest exist and are outside the window
C1_Witness ==
    /\ \E k \in DOMAIN validPaths : Len(validPaths[k]) >= 3
    /\ \E p \in SimplePathsTo(adjList, source, dest) : Len(p) < minNodes
    /\ \E p \in SimplePathsTo(adjList, source, dest) : Len(p) > maxNodes

\* C2: when the enumeration has returned, validPaths holds every simple path
\* from source to dest whose node count is in [minNodes, maxNodes], each once.
C2_AllPathsExactlyOnce ==
    enumPc = "done" =>
        /\ {validPaths[k] : k \in DOMAIN validPaths} =
              {p \in SimplePathsTo(adjList, source, dest) :
                  Len(p) >= minNodes /\ Len(p) <= maxNodes}
        /\ \A i, j \in DOMAIN validPaths : i # j => validPaths[i] # validPaths[j]

\* the enumeration returned several sequences, one of them of maxNodes nodes,
\* on a graph that is not complete
C2_Witness ==
    /\ enumPc = "done"
    /\ Len(validPaths) >= 3
    /\ \E k \in DOMAIN validPaths : Len(validPaths[k]) = maxNodes
    /\ \E i \in DOMAIN adjList : adjList[i] # DOMAIN adjList \ {i}

-----------------------------------------------------------------------------
(* Reference definitions for the properties of aStar                       *)

\* the cells of the sub-grid of a query
Region(sp, ep) ==
    LET b == Subgrid(sp, ep)
    IN  {c \in Cells : b.startRow <= c[1] /\ c[1] <= b.endRow
                       /\ b.startCol <= c[2] /\ c[2] <= b.endCol}

Adjacent8(p, q) ==
    /\ p # q
    /\ Abs(p[1] - q[1]) <= 1
    /\ Abs(p[2] - q[2]) <= 1

RECURSIVE CheapestWithin(_, _, _, _)
\* the pairs <<cell, cost of the cheapest path of at most k steps to it>>, from
\* the pairs of dist; each step is charged the cost of the cell it enters
CheapestWithin(g, region, dist, k) ==
    IF k = 0 THEN dist
    ELSE LET next ==
                 {<<c, Min({d[2] + (IF d[1] = c THEN 0 ELSE g[c]) :
                               d \in {e \in dist : e[1] = c \/ Adjacent8(e[1], c)}})>> :
                     c \in {c \in region : \E e \in dist : e[1] = c \/ Adjacent8(e[1], c)}}
         IN  \* one more step changes nothing: neither will any further step
             IF next = dist THEN dist ELSE CheapestWithin(g, region, next, k - 1)

MinimumCost(g, sp, ep) ==
    LET reached == CheapestWithin(g, Region(sp, ep), {<<sp, 0>>},
                                  Cardinality(Region(sp, ep)))
    IN  (CHOOSE e \in reached : e[1] = ep)[2]

RECURSIVE RouteCost(_, _, _)
\* sum of the costs of the positions i .. Len(r) of a route
RouteCost(g, r, i) == IF i > Len(r) THEN 0 ELSE g[r[i]] + RouteCost(g, r, i + 1)

\* C3: the cost aStar returns is the minimum, over the 8-connected paths from
\* start to end inside the sub-grid, of the sum of the costs of the cells entered.
C3_AStarCostIsMinimum ==
    aPc = "done" => totalCost = MinimumCost(grid, startPos, endPos)

\* a query whose cheapest route is a detour: more steps than the distance
\* between the two cells, at a cost above zero
C3_Witness ==
    /\ aPc = "done"
    /\ totalCost > 0
    /\ Len(route) - 1 > Max({Abs(startPos[1] - endPos[1]), Abs(startPos[2] - endPos[2])})

\* C4: the returned route starts at start, ends at end, moves by one 8-adjacent
\* step at a time, stays inside the sub-grid, and its cells after the first
\* cost exactly the returned cost.
C4_RouteIsValidAndCostsTotal ==
    aPc = "done" =>
        /\ Len(route) >= 1
        /\ route[1] = startPos
        /\ route[Len(route)] = endPos
        /\ \A i \in 1 .. (Len(route) - 1) : Adjacent8(route[i], route[i + 1])
        /\ \A i \in DOMAIN route : route[i] \in Region(startPos, endPos)
        /\ totalCost = RouteCost(grid, route, 2)

\* a route of at least three cells returned on a grid that has cells
\* outside the sub-grid of the query
C4_Witness ==
    /\ aPc = "done"
    /\ Len(route) >= 3
    /\ totalCost > 0
    /\ Region(startPos, endPos) # Cells

-----------------------------------------------------------------------------
(* Properties of findCheapestPath                                          *)

\* C5: the cost of the LowestCostPath findCheapestPath returns is less than or
\* equal to the total cost computePathCost computed for every candidate of
\* validPaths, whatever the node counts of the candidates.
C5_ReturnedCostIsLowest ==
    parentPc = "returned" =>
        /\ Len(computed) = NumPaths
        /\ \A k \in 1 .. NumPaths : bestPath.cost <= computed[k]

\* findCheapestPath returned a candidate that is not the first of validPaths
\* and is strictly cheaper than a candidate of another node count
C5_Witness ==
    /\ parentPc = "returned"
    /\ NumPaths > 1
    /\ bestPath.nodes # validPaths[1]
    /\ \E k \in 1 .. NumPaths :
          /\ bestPath.cost < computed[k]
          /\ Len(validPaths[k]) # Len(bestPath.nodes)

\* C6: when two candidate sequences contain the same directed leg (the same
\* start and end position), aStar is invoked once for that key: no two
\* grandchildren of different sequences call aStar for one key.
C6_SolverInvokedOncePerKey ==
    \A p, q \in aStarCalls : p[1] # q[1] => CacheKey(p) # CacheKey(q)

\* C7: computePathCost reads the grandchild files of a sequence only after
\* every grandchild process of that sequence has finished.
C7_LegsReadAfterGrandchildrenFinish ==
    parentPc = "read" /\ coster.subPathIndex > 0 =>
        \A l \in 0 .. (Legs(pathIndex) - 1) :
            gchild[<<pathIndex, l>>].pc \in {"none", "exited"}

\* C8: a candidate's cost is compared against the current best only after the
\* child processes of all candidate sequences have completed.
C8_ReductionAfterAllChildren ==
    Len(computed) > 0 => \A c \in Children : child[c].pc = "exited"

\* C9: the fan-out over the candidate sequences is parallel: the parent does
\* not block in wait for one sequence's child while the child of another
\* sequence is still to be forked, so that children of different sequences
\* are alive at the same time.
C9_ChildrenForkedBeforeWait ==
    parentPc = "wait" => \A c \in Children : child[c].pc # "none"

\* the smallest index of validPaths whose computed cost is the minimum
LowestIndex ==
    Min({k \in 1 .. NumPaths : \A m \in 1 .. NumPaths : computed[k] <= computed[m]})

\* C10: when several candidates share the minimal cost, findCheapestPath
\* returns the one of smallest index in validPaths.
C10_TieKeepsSmallestIndex ==
    parentPc = "returned" /\ NumPaths > 0 =>
        /\ bestPath.nodes = validPaths[LowestIndex]
        /\ bestPath.cost = computed[LowestIndex]

\* findCheapestPath returned while a later candidate, of other nodes, has
\* the same minimal cost as the one returned
C10_Witness ==
    /\ parentPc = "returned"
    /\ NumPaths > 0
    /\ \E k \in 1 .. NumPaths :
          /\ k > LowestIndex
          /\ computed[k] = computed[LowestIndex]
          /\ validPaths[k] # validPaths[LowestIndex]

C12_OneProcessPerTask ==
    /\ \A j, k \in DOMAIN forkLog : forkLog[j] = forkLog[k] => j = k
    /\ Range(forkLog) \subseteq {<<c>> : c \in Children} \cup Grandchildren
    /\ parentPc = "returned" =>
          /\ Range(forkLog) = {<<c>> : c \in Children} \cup Grandchildren
          /\ Len(forkLog) = NumPaths + Cardinality(Grandchildren)
          /\ \A c \in Children : child[c].pc = "exited"
          /\ \A p \in Grandchildren : gchild[p].pc = "exited"

\* findCheapestPath returned after sequences of different node counts were
\* handled by their children and grandchildren
C12_Witness ==
    /\ parentPc = "returned"
    /\ \E c1, c2 \in Children : Legs(c1) # Legs(c2)
    /\ Len(forkLog) > NumPaths + 2

\* the call of aStar that findCheapestSubpath makes for the leg from node a to node b
LegResult(a, b) == aStar(grid, nodes[a], nodes[b], Subgrid(nodes[a], nodes[b]))

RECURSIVE LegRoutes(_, _)
\* the routes of the legs k, k + 1, ... of a sequence, each without its first position
LegRoutes(seq, k) ==
    IF k >= Len(seq) THEN <<>>
    ELSE Tail(LegResult(seq[k], seq[k + 1]).path) \o LegRoutes(seq, k + 1)

\* computePathCost has read every leg of sequence pathIndex and is about to return
CosterComplete ==
    /\ parentPc = "read"
    /\ coster.subPathIndex = Len(coster.nodes) - 1

\* C13: the route computePathCost builds for a sequence is the position of its
\* first node followed, leg by leg, by the aStar route of the leg without its
\* first position: it starts at the source position, ends at the destination
\* position, and any two consecutive positions are 8-adjacent (so no position
\* is repeated at a leg boundary).
C13_RouteIsConcatenationOfLegs ==
    CosterComplete =>
        LET seq == validPaths[pathIndex + 1]
            r == coster.path
        IN  /\ r = <<nodes[seq[1]]>> \o LegRoutes(seq, 1)
            /\ r[1] = nodes[source]
            /\ r[Len(r)] = nodes[dest]
            /\ \A k \in 1 .. (Len(r) - 1) : Adjacent8(r[k], r[k + 1])

\* the route of a sequence of four nodes is complete, and one of its legs
\* contributed more than one position
C13_Witness ==
    /\ CosterComplete
    /\ Len(coster.nodes) = 4
    /\ Len(coster.path) > 4
    /\ \E k \in 1 .. 3 : Len(LegResult(coster.nodes[k], coster.nodes[k + 1]).path) > 2

RECURSIVE LegCosts(_, _)
\* the sum of the costs aStar returns for the legs k, k + 1, ... of a sequence
LegCosts(seq, k) ==
    IF k >= Len(seq) THEN 0
    ELSE LegResult(seq[k], seq[k + 1]).cost + LegCosts(seq, k + 1)

\* C14: the total cost computePathCost reports for a sequence equals the sum
\* of the costs aStar returned for its legs, which equals the sum of the grid
\* costs of every position of the concatenated route except the first.
C14_TotalIsSumOfLegCosts ==
    CosterComplete =>
        /\ coster.totalCost = LegCosts(validPaths[pathIndex + 1], 1)
        /\ coster.totalCost = RouteCost(grid, coster.path, 2)

\* C15: when the enumeration yields no candidate sequence, the run forks no
\* process and hands no LowestCostPath to the output layer: the output file is
\* never written with a result.
C15_NoCandidateNoResult ==
    NumPaths = 0 => forkLog = <<>> /\ ~outputFile.exists

\* C16: when the frontier queue of aStar becomes empty without end having
\* been popped, aStar surfaces an explicit error: it never goes on to the
\* predecessor walk and the return of a cost and a route with an end whose
\* cost was never set.
C16_UnreachableIsExplicitError ==
    aPc \in {"walk", "done", "ub"} => cost[endPos] # FltMax

\* C17: when the grandchild of a leg ends without a complete result, the run
\* fails as a whole: the parent never completes the cost of the candidate
\* sequence of that leg from a default or partial cost.
C17_FailedLegFailsTheRun ==
    \A p \in Grandchildren : gchild[p].pc = "killed" => Len(computed) <= p[1]

\* C18: when a fork of a child or of a grandchild fails, the run aborts with
\* an error: no cost is completed for the sequence of the failed fork, and
\* findCheapestPath never returns a LowestCostPath that is then output.
C18_ForkFailureAbortsRun ==
    /\ parentExit = 80 => ~outputFile.exists
    /\ \A c \in Children :
          child[c].status = 80 =>
              /\ Len(computed) <= c
              /\ parentPc \notin {"returned", "output"}

RECURSIVE ReportedCost(_, _, _)
\* the total of the legs k, k + 1, ... of a sequence added to acc, each leg
\* cost as it is read back from the line it was written to
ReportedCost(seq, k, acc) ==
    IF k >= Len(seq) THEN acc
    ELSE ReportedCost(seq, k + 1,
             FloatAdd(acc, FloatOf(FormatFloat(LegResult(seq[k], seq[k + 1]).cost))))

\* nodes, route and cost of candidate k as a function of the inputs alone
ExpectedPath(k) ==
    [nodes |-> validPaths[k],
     path  |-> <<nodes[validPaths[k][1]]>> \o LegRoutes(validPaths[k], 1),
     cost  |-> ReportedCost(validPaths[k], 1, 0)]

RECURSIVE ExpectedBest(_, _)
\* the first candidate of lowest cost among k, k + 1, ..., starting from best
ExpectedBest(k, best) ==
    IF k > NumPaths THEN best
    ELSE ExpectedBest(k + 1, IF ExpectedPath(k).cost < best.cost
                             THEN ExpectedPath(k) ELSE best)

\* C19: for a fixed grid, graph, source and dest, the selected nodes, route
\* and cost are the same in every execution, whatever the order in which the
\* child and grandchild processes run and finish: what findCheapestPath
\* returns, and what is output, is a function of the inputs alone.
C19_ResultIsFunctionOfInputs ==
    /\ parentPc \in {"returned", "output"} => bestPath = ExpectedBest(1, NoBestPath)
    /\ outputFile.exists =>
          /\ outputFile.nodes = ExpectedBest(1, NoBestPath).nodes
          /\ outputFile.path = ExpectedBest(1, NoBestPath).path
          /\ outputFile.cost = FormatFloat(ExpectedBest(1, NoBestPath).cost)


\* the parent has ended and no process it forked, directly or not, is left
RunEnded ==
    /\ parentPc \in {"output", "exited"}
    /\ \A c \in Children : child[c].pc \in {"none", "exited"}
    /\ \A p \in Grandchildren : gchild[p].pc \in {"none", "exited", "killed"}

\* a process ends only after the processes it forked have exited and were
\* collected by its wait loop
ForkedAreWaitedFor ==
    /\ \A c \in Children :
          child[c].pc = "exited" =>
              \A l \in 0 .. (Legs(c) - 1) : gchild[<<c, l>>].pc \in {"none", "exited", "killed"}
    /\ parentPc \in {"returned", "output", "exited"} =>
          \A c \in Children : child[c].pc \in {"none", "exited"}

\* C20: every run terminates without cancellation: every process that was
\* forked exits and is waited for by the process that forked it, the cost of
\* every candidate sequence has been computed when findCheapestPath returns,
\* and in the end the parent and all the processes have ended.
C20_RunTerminates ==
    /\ <>RunEnded
    /\ [](ForkedAreWaitedFor)
    /\ [](parentPc = "returned" => Len(computed) = NumPaths)

-----------------------------------------------------------------------------
(* The graph after findClosestNodes *)

\* node a is ranked before node b seen from node i: closer by Manhattan
\* distance, or as close and of smaller index
RankedBefore(i, a, b) ==
    \/ manhattanDistance(nodes[i], nodes[a]) < manhattanDistance(nodes[i], nodes[b])
    \/ /\ manhattanDistance(nodes[i], nodes[a]) = manhattanDistance(nodes[i], nodes[b])
       /\ a < b

\* j is one of the min(3, n - 1) nodes closest to i
AmongClosest(i, j) ==
    /\ j \in DOMAIN nodes \ {i}
    /\ Cardinality({a \in DOMAIN nodes \ {i, j} : RankedBefore(i, a, j)})
          < Min({3, Cardinality(DOMAIN nodes) - 1})

\* C21: after findClosestNodes on a graph of n >= 2 nodes the adjacency
\* relation is symmetric (j is in adj[i] exactly when i is in adj[j]), has no
\* self-edge, and holds only indices in 0 .. n-1.
C21_AdjacencySymmetricLoopFree ==
    graphPc = "done" /\ nodeIndex = Cardinality(DOMAIN nodes) =>
        /\ Cardinality(DOMAIN nodes) >= 2
        /\ DOMAIN adjList = DOMAIN nodes
        /\ \A a \in DOMAIN nodes :
              /\ a \notin adjList[a]
              /\ adjList[a] \subseteq 0 .. (Cardinality(DOMAIN nodes) - 1)
              /\ \A b \in DOMAIN nodes : (b \in adjList[a]) <=> (a \in adjList[b])

\* findClosestNodes has returned and some edge a-b is there only because a
\* is among the closest of b: b was never popped from the heap of a
C21_Witness ==
    /\ graphPc = "done" /\ nodeIndex = Cardinality(DOMAIN nodes)
    /\ \E a, b \in DOMAIN nodes :
          /\ b \in adjList[a]
          /\ a \in adjList[b]
          /\ ~AmongClosest(a, b)
          /\ AmongClosest(b, a)

\* C22: after findClosestNodes, node j is adjacent to node i exactly when j
\* is one of the min(3, n-1) nodes closest to i by Manhattan distance or i is
\* one of the min(3, n-1) nodes closest to j, equal distances being ranked by
\* smaller node index.
C22_AdjacentIffAmongClosest ==
    graphPc = "done" /\ nodeIndex = Cardinality(DOMAIN nodes) =>
        \A a, b \in DOMAIN nodes :
            (b \in adjList[a]) <=> (AmongClosest(a, b) \/ AmongClosest(b, a))

\* findClosestNodes has returned on five nodes, two of them at the same
\* distance of a third, and only the one of smaller index is its neighbor
C22_Witness ==
    /\ graphPc = "done" /\ nodeIndex = Cardinality(DOMAIN nodes)
    /\ Cardinality(DOMAIN nodes) = 5
    /\ \E a, b, c \in DOMAIN nodes :
          /\ a # b /\ a # c /\ b < c
          /\ manhattanDistance(nodes[a], nodes[b]) = manhattanDistance(nodes[a], nodes[c])
          /\ b \in adjList[a]
          /\ c \notin adjList[a]
          /\ ~AmongClosest(c, a)

-----------------------------------------------------------------------------
(* The sub-region of a leg *)

\* rows [max(min(r1,r2)-1, 0), min(max(r1,r2)+1, height-1)] and the
\* corresponding column range
PaddedBox(sp, ep) ==
    [startRow |-> Max({Min({sp[1], ep[1]}) - 1, 0}),
     endRow   |-> Min({Max({sp[1], ep[1]}) + 1, GridHeight - 1}),
     startCol |-> Max({Min({sp[2], ep[2]}) - 1, 0}),
     endCol   |-> Min({Max({sp[2], ep[2]}) + 1, GridWidth - 1})]

\* position c lies in the rows and columns of box b
Inside(c, b) ==
    /\ b.startRow <= c[1] /\ c[1] <= b.endRow
    /\ b.startCol <= c[2] /\ c[2] <= b.endCol

\* C23: the sub-region that findCheapestSubpath passes to aStar is rows
\* [max(min(r1,r2)-1, 0), min(max(r1,r2)+1, height-1)] and the corresponding
\* column range: for in-bounds endpoints it lies inside the grid and holds
\* both start and end, and aStar never reads or relaxes a cell outside it:
\* the cells an iteration is about to test, the cells in the queue and the
\* cells whose cost or predecessor was set are all inside.
C23_SearchStaysInSubRegion ==
    LET b == PaddedBox(startPos, endPos)
    IN  /\ Subgrid(startPos, endPos) = b
        /\ 0 <= b.startRow /\ b.endRow <= GridHeight - 1
        /\ 0 <= b.startCol /\ b.endCol <= GridWidth - 1
        /\ Inside(startPos, b)
        /\ Inside(endPos, b)
        /\ aPc = "loop" /\ pq # {} =>
              \A c \in AdjacentCells(PqTop(pq)[2], Subgrid(startPos, endPos)) : Inside(c, b)
        /\ \A x \in pq : Inside(x[2], b)
        /\ \A c \in Cells :
              ~Inside(c, b) => cost[c] = FltMax /\ predecessors[c] = NoPredecessor

\* aStar has returned; the sub-region is not the whole grid and a cell next
\* to a cell left outside was expanded
C23_Witness ==
    /\ aPc = "done"
    /\ \E c \in Cells, d \in Cells :
          /\ ~Inside(c, PaddedBox(startPos, endPos))
          /\ Inside(d, PaddedBox(startPos, endPos))
          /\ Abs(c[1] - d[1]) <= 1 /\ Abs(c[2] - d[2]) <= 1
          /\ \E e \in Cells : predecessors[e] = d

-----------------------------------------------------------------------------
(* The inputs of a search run *)

\* C24: none of findValidPath, findCheapestPath, findCheapestSubpath, aStar
\* and computePathCost changes the cost grid, the node list or the adjacency
\* relation: no step of any process of a search run changes one of them, so
\* all three are the same before and after the run.
C24_InputsNeverChange ==
    [][grid' = grid /\ nodes' = nodes /\ adjList' = adjList]_vars

\* a search run is over: sub-paths were computed by grandchildren, their
\* costs were read back and the result was output
C24_Witness ==
    /\ parentPc = "output"
    /\ aStarCalls # {}
    /\ Len(computed) = NumPaths
    /\ NumPaths > 0

-----------------------------------------------------------------------------
(* The same sub-path requested twice *)

\* C25: requesting the same (start, end) key twice through
\* findCheapestSubpath yields the same cost and the same route positions,
\* written to the scrap file, both times, whether the second request is
\* served from subpathCache or recomputed: two executions for one key that
\* have ended left the same cost line and the same route lines.
C25_SameKeySameResult ==
    \A p, q \in Grandchildren :
        /\ CacheKey(p) = CacheKey(q)
        /\ gchild[p].pc \in {"exited", "killed"}
        /\ gchild[q].pc \in {"exited", "killed"}
        => grandchildFile[p].tokens = grandchildFile[q].tokens

-----------------------------------------------------------------------------
(* A search from a node to itself *)

\* C26: with source == dest and minNodes <= 1 the enumerator yields exactly
\* the one-node sequence [source]; costing that sequence forks no
\* grandchild and gives cost 0 and a route made of the single position of
\* that node.
C26_SingleNodeSequence ==
    source = dest /\ minNodes <= 1 =>
        /\ validPaths = <<<<source>>>>
        /\ \A k \in 1 .. Len(forkLog) : Len(forkLog[k]) = 1
        /\ aStarCalls = {}
        /\ parentPc = "compare" =>
              coster = [nodes |-> <<source>>, path |-> <<nodes[source]>>,
                        totalCost |-> 0, subPathIndex |-> 0]
        /\ computed \in {<<>>, <<0>>}
        /\ parentPc \in {"returned", "output"} =>
              bestPath = [nodes |-> <<source>>, path |-> <<nodes[source]>>, cost |-> 0]
        /\ outputFile.exists =>
              /\ outputFile.nodes = <<source>>
              /\ outputFile.path = <<nodes[source]>>
              /\ outputFile.cost = 0

\* the one-node sequence was enumerated with minNodes = 1, costed by a child
\* without grandchildren, and output
C26_Witness ==
    /\ source = dest
    /\ minNodes = 1
    /\ forkLog = <<<<0>>>>
    /\ child[0].pc = "exited"
    /\ computed = <<0>>
    /\ outputFile.exists

-----------------------------------------------------------------------------
(* The uniform 3x3 grid *)

\* C27: on a 3x3 grid whose cells all cost 1, the sub-path computed by aStar
\* from (0,0) to (2,2) has cost 2 and a route of exactly 3 positions.
C27_UniformGridDiagonal ==
    /\ aPc = "done"
    /\ startPos = <<0, 0>>
    /\ endPos = <<2, 2>>
    /\ grid = [c \in (0 .. 2) \X (0 .. 2) |-> 1]
    => /\ totalCost = 2
       /\ Len(route) = 3

\* aStar has returned from (0,0) to (2,2) on the uniform 3x3 grid of cost 1,
\* through the centre
C27_Witness ==
    /\ grid = [c \in (0 .. 2) \X (0 .. 2) |-> 1]
    /\ startPos = <<0, 0>>
    /\ endPos = <<2, 2>>
    /\ aPc = "done"
    /\ route = <<<<0, 0>>, <<1, 1>>, <<2, 2>>>>

-----------------------------------------------------------------------------
(* The cache lock *)

\* C28: a process executing findCheapestSubpath does not hold the cache lock
\* while it runs aStar: the lock is released after a cache miss and
\* re-acquired only once aStar has returned.
C28_NoLockDuringAStar ==
    \A p \in Grandchildren :
        /\ gchild[p].pc = "astar" => ~gchild[p].lock
        /\ gchild[p].lock => gchild[p].pc = "route" /\ grandchildFile[p].tokens # <<>>

\* one execution is between its cache miss and the return of aStar, without
\* the lock, while another has its result and holds its lock again
C28_Witness ==
    \E p, q \in Grandchildren :
        /\ gchild[p].pc = "astar"
        /\ ~gchild[p].lock
        /\ gchild[q].pc = "route"
        /\ gchild[q].lock
        /\ q \in aStarCalls

\* C29: the cache mutex gives mutual exclusion on subpathCache: at no time
\* are two concurrently running findCheapestSubpath executions both inside a
\* section of cache lookup or cache insert, the sections in which the
\* execution holds the lock.
C29_LockIsExclusive ==
    \A p, q \in Grandchildren :
        p # q => ~(gchild[p].lock /\ gchild[q].lock)

-----------------------------------------------------------------------------
(* The in-progress path of the enumerator *)

\* the nodes of the calls of findValidPath that have not returned, outermost
\* first
ActiveCalls == [k \in 1 .. Len(stack) |-> stack[k].current]

\* a step leaves the node of every call that stays active as it is, and
\* ends at most one call, whose node alone leaves the path
CallsKeepTheirNode ==
    /\ \A k \in 1 .. Len(stack) :
          (k <= Len(stack')) => (stack'[k].current = stack[k].current)
    /\ (Len(stack') < Len(stack)) =>
          /\ Len(stack') = Len(stack) - 1
          /\ path' = SubSeq(path, 1, Len(path) - 1)

\* C30: the enumerator leaves the in-progress path exactly as it was when
\* called: the path always holds the nodes of the calls that have not
\* returned, in call order, and no step changes the node of a call that stays
\* active, so at the return of every findValidPath call, also of calls
\* through which no valid sequence was recorded, the path holds the same
\* nodes in the same order as at entry; it is empty after the top-level call.
C30_PathRestoredAtReturn ==
    /\ [](path = ActiveCalls)
    /\ [](enumPc = "done" => path = <<>>)
    /\ [][CallsKeepTheirNode]_vars

\* the top-level call is in its loop after a nested call returned: nothing
\* was recorded and the path is again the start node alone
C30_Witness ==
    /\ enumPc = "run"
    /\ Len(stack) = 1
    /\ stack[1].todo # adjList[source]
    /\ source # dest
    /\ validPaths = <<>>
    /\ path = <<source>>

-----------------------------------------------------------------------------
(* The window of the program *)

\* C31: with the fixed window minNodes = 3 and maxNodes = 5 of the program
\* every candidate, and so the path selected among the candidates, has
\* between 3 and 5 nodes: the one-node sequence (source == dest) and the
\* direct two-node sequence source-dest are never candidates, even when
\* source and dest are adjacent.
C31_SelectedPathHasThreeToFiveNodes ==
    /\ \A k \in 1 .. Len(validPaths) :
          /\ Len(validPaths[k]) >= 3
          /\ Len(validPaths[k]) <= 5
          /\ validPaths[k] # <<source>>
          /\ validPaths[k] # <<source, dest>>
    /\ \A k \in 1 .. Len(computed) : Len(childFile[k - 1].tokens) \in 3 .. 5
    /\ parentPc \in {"returned", "output"} /\ validPaths # <<>> =>
          Len(bestPath.nodes) \in 3 .. 5
    /\ outputFile.exists /\ validPaths # <<>> => Len(outputFile.nodes) \in 3 .. 5

\* source and dest are adjacent and the path that was selected and output
\* goes through other nodes
C31_Witness ==
    /\ dest \in adjList[source]
    /\ outputFile.exists
    /\ Len(outputFile.nodes) >= 3
    /\ outputFile.nodes[1] = source
    /\ outputFile.nodes[Len(outputFile.nodes)] = dest

-----------------------------------------------------------------------------
(* The cache across processes *)

RECURSIVE LegsFrom(_)
\* the sum of len_i - 1 over the candidates c, c + 1, ...
LegsFrom(c) == IF c >= NumPaths THEN 0 ELSE Len(validPaths[c + 1]) - 1 + LegsFrom(c + 1)

-----------------------------------------------------------------------------
(* The end of the search *)

\* C34: for every pair of in-bounds start and end positions, start == end
\* included, and the sub-region computed by findCheapestSubpath, aStar pops
\* end before its queue empties: when the loop is left the end is the start
\* or has a predecessor, so the predecessor walk never uses the (-1,-1)
\* marker as a grid index.
C34_EndPoppedBeforeQueueEmpties ==
    /\ aPc \in {"walk", "done"} =>
          endPos = startPos \/ predecessors[endPos] # NoPredecessor
    /\ aPc # "ub"

-----------------------------------------------------------------------------
(* The fields of the result *)

\* C35: the three fields of the LowestCostPath returned by findCheapestPath
\* for a non-empty candidate list belong to one and the same candidate:
\* nodes equals validPaths[k] for some index k, read back unchanged from
\* child_k, and route and cost are the route and the total cost computed for
\* that same k.
C35_ResultFieldsOfOneCandidate ==
    parentPc \in {"returned", "output"} /\ NumPaths > 0 =>
        \E k \in 1 .. NumPaths :
            /\ bestPath.nodes = validPaths[k]
            /\ bestPath.nodes = childFile[k - 1].tokens
            /\ bestPath.cost = computed[k]
            /\ bestPath.path = <<nodes[validPaths[k][1]]>> \o LegRoutes(validPaths[k], 1)

-----------------------------------------------------------------------------
(* The least number of neighbors *)

\* the smaller of two numbers
Smaller(a, b) == IF a < b THEN a ELSE b

\* C37: after findClosestNodes on n >= 2 nodes every node has at least
\* min(3, n-1) neighbors, so no node is isolated, and the adjacency list is
\* never empty: the test adjList.size() == 0 of findValidPaths is false.
C37_EveryNodeHasItsClosest ==
    /\ \A a \in DOMAIN nodes :
          a < nodeIndex =>
              Cardinality(adjList[a]) >=
                  Smaller(numClosestNodes, Cardinality(DOMAIN nodes) - 1)
    /\ graphPc = "done" =>
          /\ nodeIndex = Cardinality(DOMAIN nodes)
          /\ Cardinality(DOMAIN adjList) # 0
          /\ \A a \in DOMAIN nodes : adjList[a] # {}

\* findClosestNodes has returned on five nodes: one node has exactly its
\* three closest as neighbors, another has more
C37_Witness ==
    /\ graphPc = "done"
    /\ Cardinality(DOMAIN nodes) = 5
    /\ \E a, b \in DOMAIN nodes :
          /\ Cardinality(adjList[a]) = numClosestNodes
          /\ Cardinality(adjList[b]) > numClosestNodes

-----------------------------------------------------------------------------
(* The two directions of a leg *)

\* the call of aStar for the opposite direction of the current call
OppositeCall == aStar(grid, endPos, startPos, Subgrid(endPos, startPos))

\* the cache entry findCheapestSubpath stores for the current call
EntryOfCall == [key |-> <<startPos, endPos>>, cost |-> totalCost, path |-> route]

\* C38: for two in-bounds positions A and B on a grid of non-negative costs
\* the costs of aStar for the two directions satisfy
\* cost(A to B) + grid[A] = cost(B to A) + grid[B]; the two costs differ
\* whenever the costs of the two endpoint cells differ; and a result stored
\* under the key (A,B) is not found under the key (B,A).
C38_DirectionsDifferByEndpoints ==
    aPc \in {"done", "ub"} =>
        /\ aPc = "done" /\ OppositeCall.ok
        /\ FloatAdd(totalCost, grid[startPos]) = FloatAdd(OppositeCall.cost, grid[endPos])
        /\ grid[startPos] # grid[endPos] => totalCost # OppositeCall.cost
        /\ startPos # endPos => CacheFind({EntryOfCall}, <<endPos, startPos>>) = {}
        /\ CacheFind({EntryOfCall}, <<startPos, endPos>>) = {EntryOfCall}

\* aStar has returned for two different cells of different costs, the
\* route has an inner cell, and the opposite call takes another route
C38_Witness ==
    /\ aPc = "done"
    /\ grid[startPos] # grid[endPos]
    /\ Len(route) > 2
    /\ OppositeCall.path # Reverse(route)
    /\ totalCost > 0

-----------------------------------------------------------------------------
(* The cost and predecessor matrices *)

RECURSIVE ChainReachesStart(_, _)
\* following predecessors from cell c reaches startPos within n steps
ChainReachesStart(c, n) ==
    IF c = startPos THEN TRUE
    ELSE IF n = 0 \/ c \notin Cells THEN FALSE
    ELSE ChainReachesStart(predecessors[c], n - 1)

\* the cells other than the start that have a predecessor
CellsWithPredecessor == {c \in Cells \ {startPos} : predecessors[c] # NoPredecessor}

\* C39: throughout aStar on non-negative costs the start cell keeps cost 0
\* and predecessor (-1,-1); when the end is popped every other cell that
\* has a predecessor satisfies cost[cell] = cost[predecessor] + grid[cell];
\* and following predecessors from any such cell reaches the start without
\* a cycle, also with cells of cost 0 and with outdated queue entries.
C39_CostAndPredecessorsConsistent ==
    aPc \in {"loop", "walk", "done"} =>
        /\ cost[startPos] = 0
        /\ predecessors[startPos] = NoPredecessor
        /\ \A c \in CellsWithPredecessor :
              ChainReachesStart(c, Cardinality(CellsWithPredecessor))
        /\ aPc \in {"walk", "done"} =>
              \A c \in CellsWithPredecessor :
                  cost[c] = FloatAdd(cost[predecessors[c]], grid[c])

\* the end has been popped: a cell of cost 0 on the route has the cost of
\* its predecessor, which is not the start, and some cell off the route has
\* a predecessor too
C39_Witness ==
    /\ aPc = "done"
    /\ Len(route) > 2
    /\ \E k \in 3 .. Len(route) :
          /\ grid[route[k]] = 0
          /\ cost[route[k]] = cost[predecessors[route[k]]]
          /\ cost[route[k]] > 0
    /\ \E c \in CellsWithPredecessor : c \notin {route[k] : k \in 1 .. Len(route)}

-----------------------------------------------------------------------------
(* Version 2: the processes and the files at the return *)

\* C32: Version 2's findCheapestPath forks the children of all candidates
\* before it waits and returns only after every child and every grandchild
\* has exited; at the return child_i holds the node sequence of candidate i
\* and grandchild_i_j holds the two node indices validPath[j] and
\* validPath[j + 1], for every candidate i and every leg j.
C32_V2AllForkedThenAllWritten ==
    /\ parentPc = "v2wait" =>
          /\ pathIndex = NumPaths
          /\ \A c \in Children : child[c].pc # "none"
    /\ parentPc = "v2returned" =>
          /\ \A c \in Children :
                /\ child[c].pc = "exited"
                /\ childFile[c] = [exists |-> TRUE, tokens |-> validPaths[c + 1]]
          /\ \A p \in Grandchildren :
                /\ gchild[p].pc = "exited"
                /\ grandchildFile[p] =
                      [exists |-> TRUE,
                       tokens |-> <<validPaths[p[1] + 1][p[2] + 1],
                                    validPaths[p[1] + 1][p[2] + 2]>>]

-----------------------------------------------------------------------------
(* The writers of the scrap files *)

\* a step that changes child_<c>.txt is a step of child c and of no other
\* process
ChildFileWrittenByChild(c) ==
    childFile'[c] # childFile[c] =>
        /\ child[c].pc \in {"write", "v2write"}
        /\ child'[c].pc # child[c].pc
        /\ \A d \in Children \ {c} : child'[d] = child[d]
        /\ gchild' = gchild
        /\ parentPc' = parentPc

\* a step that changes grandchild_<i>_<j>.txt is a step of grandchild j of
\* child i and of no other process
GrandchildFileWrittenByGrandchild(p) ==
    grandchildFile'[p] # grandchildFile[p] =>
        /\ gchild[p].pc \notin {"none", "exited", "killed"}
        /\ gchild'[p] # gchild[p]
        /\ \A q \in Grandchildren \ {p} : gchild'[q] = gchild[q]
        /\ child' = child
        /\ parentPc' = parentPc

\* a process is forked once: only a child or a grandchild that does not
\* exist is started, and one that exists stays
ForkedOnce ==
    /\ child' # child =>
          \A c \in Children :
              child'[c].pc \in {"none", "write", "v2write"} =>
                  child[c].pc \in {"none", child'[c].pc}
    /\ gchild' # gchild =>
          \A p \in Grandchildren :
              gchild'[p].pc \in {"none", "start", "v2write"} =>
                  gchild[p].pc \in {"none", gchild'[p].pc}

ScrapFilesHaveOneWriter ==
    /\ childFile' # childFile => \A c \in Children : ChildFileWrittenByChild(c)
    /\ grandchildFile' # grandchildFile =>
          \A p \in Grandchildren : GrandchildFileWrittenByGrandchild(p)
    /\ ForkedOnce

\* C36: no two processes ever write the same scrap file: child_i is written
\* only by the child of candidate i and grandchild_i_j only by the
\* grandchild of leg j of candidate i, in Version 2 and in Version 3.
C36_OneWriterPerScrapFile == [][ScrapFilesHaveOneWriter]_vars

\* Version 2 has returned from a run of several candidates whose files all
\* exist
C36_WitnessV2 ==
    /\ parentPc = "v2returned"
    /\ NumPaths > 1
    /\ \A c \in Children : childFile[c].exists
    /\ \A p \in Grandchildren : grandchildFile[p].exists

\* Version 3 has returned from a run of several candidates whose files all
\* exist
C36_Witness ==
    /\ parentPc = "returned"
    /\ NumPaths > 1
    /\ \A c \in Children : childFile[c].exists
    /\ \A p \in Grandchildren : grandchildFile[p].exists /\ grandchildFile[p].tokens # <<>>

=============================================================================
